---- MODULE Spec2Model ----
(***************************************************************************)
(* A model of the softrender rasterization pipeline (src/src/renderer.rs,  *)
(* src/src/fb.rs, src/src/math.rs, src/src/shader.rs).                     *)
(*                                                                         *)
(* Numbers.  An f32 is modelled as an exact rational <<n, d>> in lowest    *)
(* terms with d > 0, extended with the three IEEE specials the pipeline    *)
(* can produce: NaN = <<0,0>>, +inf = <<1,0>>, -inf = <<-1,0>>.  Rounding  *)
(* of finite results and the sign of zero are not modelled.                *)
(* Integers (i32, u16, u32, usize) are TLA+ integers with the casts the    *)
(* code performs written out.                                              *)
(***************************************************************************)
EXTENDS Integers, Sequences, FiniteSets, TLC

\* cb, db, draw_mode, screenspace_matrix: the fields of the Renderer
\* status: "running", or "panicked" once a call has panicked
\* oob:    the last draw accessed a framebuffer outside its rectangle
\* call:   the last call made and its arguments
\* script: the calls a scripted caller makes, and how many it has made
VARIABLES cb, db, draw_mode, screenspace_matrix, status, oob, call, script

vars == <<cb, db, draw_mode, screenspace_matrix, status, oob, call, script>>

(***************************************************************************)
(* f32 arithmetic                                                          *)
(***************************************************************************)
Abs(i) == IF i < 0 THEN -i ELSE i

Sgn(i) == IF i < 0 THEN -1 ELSE IF i > 0 THEN 1 ELSE 0

RECURSIVE Gcd(_, _)
Gcd(a, b) == IF b = 0 THEN a ELSE Gcd(b, a % b)

\* n/d with the common factor g cancelled and the sign carried by n
Reduce(n, d, g) == <<(Sgn(d) * n) \div g, Abs(d) \div g>>

\* the rational n/d in lowest terms; a zero denominator gives NaN or +-inf
Norm(n, d) == IF d = 0 THEN <<Sgn(n), 0>> ELSE Reduce(n, d, Gcd(Abs(n), Abs(d)))

NaN == <<0, 0>>

R(i) == <<i, 1>>

Q(n, d) == Norm(n, d)

IsNaN(a) == a[1] = 0 /\ a[2] = 0

IsInf(a) == a[1] # 0 /\ a[2] = 0

IsFinite(a) == a[2] # 0

Neg(a) == <<-a[1], a[2]>>

\* the sum of two finite values, g the common factor of the denominators
AddFinite(a, b, g) ==
    Norm(a[1] * (b[2] \div g) + b[1] * (a[2] \div g), (a[2] \div g) * b[2])

Add(a, b) ==
    IF IsNaN(a) \/ IsNaN(b) THEN NaN
    ELSE IF IsInf(a) THEN (IF IsInf(b) /\ b # a THEN NaN ELSE a)
    ELSE IF IsInf(b) THEN b
    ELSE AddFinite(a, b, Gcd(a[2], b[2]))

Sub(a, b) == Add(a, Neg(b))

\* the product of two finite nonzero values: the products are formed after
\* cancelling across the two fractions
MulFinite(a, b, g1, g2) ==
    <<(a[1] \div g1) * (b[1] \div g2), (a[2] \div g2) * (b[2] \div g1)>>

Mul(a, b) ==
    IF IsNaN(a) \/ IsNaN(b) THEN NaN
    ELSE IF IsInf(a) \/ IsInf(b) THEN <<Sgn(a[1]) * Sgn(b[1]), 0>>
    ELSE IF a[1] = 0 \/ b[1] = 0 THEN <<0, 1>>
    ELSE MulFinite(a, b, Gcd(Abs(a[1]), b[2]), Gcd(Abs(b[1]), a[2]))

\* 1/b: 1/0 = +inf, 1/inf = 0, 1/NaN = NaN
Inv(b) ==
    IF IsNaN(b) THEN NaN
    ELSE IF IsInf(b) THEN <<0, 1>>
    ELSE Norm(b[2], b[1])

Div(a, b) == Mul(a, Inv(b))

\* comparisons: every comparison with NaN is false
Lt(a, b) ==
    /\ ~IsNaN(a)
    /\ ~IsNaN(b)
    /\ IF a[2] = 0 /\ b[2] = 0 THEN a[1] < b[1]
       ELSE a[1] * b[2] < b[1] * a[2]

FEq(a, b) == ~IsNaN(a) /\ ~IsNaN(b) /\ a = b

Le(a, b) == Lt(a, b) \/ FEq(a, b)

Gt(a, b) == Lt(b, a)

Ge(a, b) == Le(b, a)

FAbs(a) == <<Abs(a[1]), a[2]>>

\* f32::max / f32::min: a NaN operand is ignored
FMax(a, b) == IF IsNaN(a) THEN b ELSE IF IsNaN(b) THEN a ELSE IF Lt(a, b) THEN b ELSE a

FMin(a, b) == IF IsNaN(a) THEN b ELSE IF IsNaN(b) THEN a ELSE IF Lt(b, a) THEN b ELSE a

I32Max == 2147483647

U16Mod == 65536

\* `f as i32`: truncation toward zero, NaN to 0, saturating
AsI32(a) ==
    IF IsNaN(a) THEN 0
    ELSE IF IsInf(a) THEN a[1] * I32Max
    ELSE IF a[1] >= 0 THEN a[1] \div a[2]
    ELSE -((-a[1]) \div a[2])

\* `i as u16` for an i32 i: wraps modulo 2^16
I32AsU16(i) == i % U16Mod

\* an i32 saturated to the range of u16
SaturateU16(t) == IF t < 0 THEN 0 ELSE IF t >= U16Mod THEN U16Mod - 1 ELSE t

\* `f as u16` for an f32 f: truncation, NaN to 0, saturating at 0 and 65535
F32AsU16(a) == SaturateU16(AsI32(a))

\* the largest k in lo..hi with k * k <= n, by bisection
RECURSIVE ISqrtIn(_, _, _)
ISqrtIn(n, lo, hi) ==
    IF lo >= hi THEN lo
    ELSE LET mid == (lo + hi + 1) \div 2
         IN  IF mid * mid <= n THEN ISqrtIn(n, mid, hi) ELSE ISqrtIn(n, lo, mid - 1)

ISqrt(n) == ISqrtIn(n, 0, IF n < 46340 THEN n ELSE 46340)

SqrtScale == 16

\* the root of a finite a >= 0 from the integer roots sn and sd of its parts
SqrtFinite(a, sn, sd) ==
    IF sn * sn = a[1] /\ sd * sd = a[2] THEN <<sn, sd>>
    ELSE Norm(ISqrt((a[1] * SqrtScale * SqrtScale) \div a[2]), SqrtScale)

\* f32::sqrt: exact on squares of rationals, otherwise rounded down to a
\* multiple of 1/SqrtScale
Sqrt(a) ==
    IF IsNaN(a) \/ a[1] < 0 THEN NaN
    ELSE IF IsInf(a) THEN a
    ELSE SqrtFinite(a, ISqrt(a[1]), ISqrt(a[2]))

(***************************************************************************)
(* glam vectors: a VecN is an N-tuple of f32                               *)
(***************************************************************************)
VSub(u, v) == [i \in DOMAIN u |-> Sub(u[i], v[i])]

VAdd(u, v) == [i \in DOMAIN u |-> Add(u[i], v[i])]

VScale(u, s) == [i \in DOMAIN u |-> Mul(u[i], s)]

\* Vec3 / f32
VDiv(u, s) == [i \in DOMAIN u |-> Div(u[i], s)]

\* Vec4::lerp(self, rhs, s) = self + (rhs - self) * s
Lerp(self, rhs, s) == VAdd(self, VScale(VSub(rhs, self), s))

\* Vec2::perp_dot
PerpDot(u, v) == Sub(Mul(u[1], v[2]), Mul(u[2], v[1]))

\* Vec2::length_squared; Vec2::length is its square root
LengthSquared(u) == Add(Mul(u[1], u[1]), Mul(u[2], u[2]))

XY(v) == <<v[1], v[2]>>

YX(v) == <<v[2], v[1]>>

(***************************************************************************)
(* src/src/math.rs                                                         *)
(***************************************************************************)
\* the quotient of two lengths from their squares n2 and d2.  For a
\* non-degenerate segment the quotient of the two square roots is taken as
\* the square root of the quotient, which is the same real number and stays
\* exact whenever the three points are collinear.
LengthQuotient(n2, d2) ==
    IF IsFinite(n2) /\ IsFinite(d2) /\ d2[1] # 0
    THEN Sqrt(Div(n2, d2))
    ELSE Div(Sqrt(n2), Sqrt(d2))

\* InverseLerp for Vec2: (point - self).length() / (to - self).length()
inverse_lerp(self, to, point) ==
    LengthQuotient(LengthSquared(VSub(point, self)), LengthSquared(VSub(to, self)))

(***************************************************************************)
(* src/src/shader.rs: the varying record VI is instantiated as f32         *)
(***************************************************************************)
\* Barycentric::interpolated for f32
interpolated(self, coords, second, third) ==
    Add(Add(Mul(self, coords[1]), Mul(second, coords[2])), Mul(third, coords[3]))

\* Barycentric::line_interpolated for f32
line_interpolated(self, coords, second) ==
    Add(Mul(self, coords[1]), Mul(second, coords[2]))

\* Shader::vertex of the modelled shader: the vertex record already holds the
\* clip-space position and the varying
vertex(shader, v) == <<v.pos, v.attr>>

\* Shader::fragment of the modelled shader: a solid colour held as a uniform
fragment(shader, interp) == shader.color

(***************************************************************************)
(* src/src/renderer.rs: the clipper                                        *)
(***************************************************************************)
\* capacity of output_verts (ArrayVec<_, 6>)
PolyCap == 6

\* capacity of final_tris (ArrayVec<_, 4>)
TriCap == 4

\* ArrayVec::push: panics when the vector is full
Push(av, x, cap) ==
    IF av.panic \/ Len(av.items) >= cap
    THEN [items |-> av.items, panic |-> TRUE]
    ELSE [items |-> Append(av.items, x), panic |-> FALSE]

EmptyVec == [items |-> <<>>, panic |-> FALSE]

\* the six planes in the order of the loop of clip_triangle: clip_plane
\* starts at {sign: 1, axis: 2}; an even clip_plane_idx sets sign = -1 and
\* advances the axis, an odd one sets sign = 1
ClipPlaneAt(clip_plane_idx) ==
    [sign |-> IF clip_plane_idx % 2 = 0 THEN -1 ELSE 1,
     axis |-> ((2 + (clip_plane_idx \div 2) + 1) % 3)]

\* the closure inside_clip_plane(w, x) selected for the plane
inside_clip_plane(plane, w, x) ==
    IF plane.sign = -1 THEN Le(Neg(w), x) ELSE Le(x, w)

Inside(plane, pos) == inside_clip_plane(plane, pos[4], pos[plane.axis + 1])

\* Vec2::new(1.0 - barycentric_y, barycentric_y)
EdgeCoords(barycentric_y) == <<Sub(R(1), barycentric_y), barycentric_y>>

\* Vec2::clamp(ZERO, ONE) = max(ZERO).min(ONE)
Clamp01(v) == [i \in DOMAIN v |-> FMin(FMax(v[i], R(0)), R(1))]

tri_barycentric_interpolate_edge(from, to, point, attrib1, attrib2) ==
    line_interpolated(attrib1, Clamp01(EdgeCoords(inverse_lerp(from, to, point))),
                      attrib2)

\* plane.sign * pos[3] - pos[plane.axis]
PlaneDistance(plane, pos) == Sub(Mul(R(plane.sign), pos[4]), pos[plane.axis + 1])

\* interp_val from the distances of `to` and `from`
InterpVal(dto, dfrom) == Div(dto, Sub(dto, dfrom))

\* the vertex returned for the intersection position intersect_pos
IntersectionVertex(from, to, intersect_pos) ==
    <<intersect_pos,
      tri_barycentric_interpolate_edge(XY(from[1]), XY(to[1]), XY(intersect_pos),
                                       from[2], to[2])>>

\* compute_clipping_intersection with the end points of the lerp exchanged
compute_clipping_intersection_swapped(from, to, plane) ==
    IntersectionVertex(from, to,
        Lerp(from[1], to[1],
             InterpVal(PlaneDistance(plane, to[1]), PlaneDistance(plane, from[1]))))

compute_clipping_intersection(from, to, plane) ==
    IntersectionVertex(from, to,
        Lerp(to[1], from[1],
             InterpVal(PlaneDistance(plane, to[1]), PlaneDistance(plane, from[1]))))

\* PushVertex without the intersection of an edge that leaves the plane
PushVertex_no_exit_intersection(out, prev, curr, prev_inside, curr_inside, clipped_vertex) ==
    IF curr_inside
    THEN IF ~prev_inside
         THEN Push(Push(out, clipped_vertex, PolyCap), curr, PolyCap)
         ELSE Push(out, curr, PolyCap)
    ELSE out

\* PushVertex pushing the current vertex before the intersection of an edge
\* that enters the plane
PushVertex_curr_first(out, prev, curr, prev_inside, curr_inside, clipped_vertex) ==
    IF curr_inside
    THEN IF ~prev_inside
         THEN Push(Push(out, curr, PolyCap), clipped_vertex, PolyCap)
         ELSE Push(out, curr, PolyCap)
    ELSE IF prev_inside THEN Push(out, clipped_vertex, PolyCap)
    ELSE out

\* PushVertex pushing the current vertex only behind an intersection
PushVertex_after_intersection(out, prev, curr, prev_inside, curr_inside, clipped_vertex) ==
    IF curr_inside
    THEN IF ~prev_inside
         THEN Push(Push(out, clipped_vertex, PolyCap), curr, PolyCap)
         ELSE out
    ELSE IF prev_inside THEN Push(out, clipped_vertex, PolyCap)
    ELSE out

\* the pushes made for the edge prev -> curr, given the two half-space
\* tests and the intersection, which is computed only where it is pushed
PushVertex(out, prev, curr, prev_inside, curr_inside, clipped_vertex) ==
    IF curr_inside
    THEN IF ~prev_inside
         THEN Push(Push(out, clipped_vertex, PolyCap), curr, PolyCap)
         ELSE Push(out, curr, PolyCap)
    ELSE IF prev_inside THEN Push(out, clipped_vertex, PolyCap)
    ELSE out

\* the edge prev -> curr against the plane
ClipEdge(prev, curr, plane, out) ==
    PushVertex(out, prev, curr, Inside(plane, prev[1]), Inside(plane, curr[1]),
               compute_clipping_intersection(prev, curr, plane))

\* the body of the loop over vert_idx for one vertex: curr_idx = vert_idx,
\* prev_idx = (vert_idx - 1).rem_euclid(len)
ClipVertex(input_verts, vert_idx, plane, out) ==
    ClipEdge(input_verts[((vert_idx - 1) % Len(input_verts)) + 1],
             input_verts[vert_idx + 1], plane, out)

RECURSIVE ClipVerts(_, _, _, _)
ClipVerts(input_verts, vert_idx, plane, out) ==
    IF vert_idx >= Len(input_verts) \/ out.panic THEN out
    ELSE ClipVerts(input_verts, vert_idx + 1, plane,
                   ClipVertex(input_verts, vert_idx, plane, out))

\* one iteration of the loop over clip_plane_idx
ClipPass(input_verts, clip_plane_idx) ==
    ClipVerts(input_verts, 0, ClipPlaneAt(clip_plane_idx), EmptyVec)

RECURSIVE ClipPasses(_, _, _)
\* what follows the pass clip_plane_idx, which left out
AfterPass(out, clip_plane_idx, polys) ==
    IF out.panic
    THEN [panic |-> TRUE, polys |-> polys, verts |-> <<>>]
    ELSE ClipPasses(out.items, clip_plane_idx + 1, Append(polys, out.items))

\* the six passes; polys collects the polygon left by every completed pass
ClipPasses(verts, clip_plane_idx, polys) ==
    IF clip_plane_idx >= 6 THEN [panic |-> FALSE, polys |-> polys, verts |-> verts]
    ELSE AfterPass(ClipPass(verts, clip_plane_idx), clip_plane_idx, polys)

\* the triangle fan built from output_verts
RECURSIVE Fan(_, _, _, _)
Fan(output_verts, j, triangle_count, final_tris) ==
    IF j >= triangle_count \/ final_tris.panic THEN final_tris
    ELSE Fan(output_verts, j + 1, triangle_count,
             Push(final_tris,
                  << <<output_verts[1][1], output_verts[j + 2][1], output_verts[j + 3][1]>>,
                     <<output_verts[1][2], output_verts[j + 2][2], output_verts[j + 3][2]>> >>,
                  TriCap))

\* the value returned once the fan f is built
FanResult(polys, f) ==
    [panic |-> f.panic, polys |-> polys, tris |-> IF f.panic THEN <<>> ELSE f.items]

\* the part of clip_triangle after the six passes, which left p
FanOf(p) ==
    IF p.panic THEN [panic |-> TRUE, polys |-> p.polys, tris |-> <<>>]
    ELSE IF p.verts = <<>> THEN [panic |-> FALSE, polys |-> p.polys, tris |-> <<>>]
    ELSE IF Len(p.verts) < 2
         \* output_verts.len() - 2 underflows: an overflow panic, or a
         \* wrapped count whose first index is out of range
         THEN [panic |-> TRUE, polys |-> p.polys, tris |-> <<>>]
    ELSE FanResult(p.polys, Fan(p.verts, 0, Len(p.verts) - 2, EmptyVec))

\* clip_triangle: panic tells whether the call panicked, tris is the value
\* returned, polys the polygon after each pass
clip_triangle(v0, v1, v2) == FanOf(ClipPasses(<<v0, v1, v2>>, 0, <<>>))

(***************************************************************************)
(* src/src/fb.rs: Framebuffer<T> is a record [width, height, buf]; buf is  *)
(* the Vec<T>, element i of the Vec being buf[i + 1]                       *)
(***************************************************************************)
\* vec![v; n]
Repeat(v, n) == [i \in 1..n |-> v]

\* Framebuffer::new: every element is T::default()
FbNew(width, height, default) ==
    [width |-> width, height |-> height, buf |-> Repeat(default, width * height)]

\* Framebuffer::fill starting its loop behind the first element
fill_skip_first(fb, value) ==
    [fb EXCEPT !.buf = [i \in DOMAIN fb.buf |-> IF i = 1 THEN fb.buf[i] ELSE value]]

\* Framebuffer::fill
fill(fb, value) == [fb EXCEPT !.buf = [i \in DOMAIN fb.buf |-> value]]

\* FbIndex without the inversion of y
FbIndex_no_flip(fb, x, y) ==
    IF fb.height = 0 \/ y > fb.height - 1 THEN -1
    ELSE LET idx == y * fb.width + x
         IN  IF idx >= Len(fb.buf) THEN -1 ELSE idx

\* the index computed by plot_pixel and get_pixel.  (height - 1) - y
\* underflows u16 when y > height - 1: a panic with overflow checks, and a
\* row of at least 2^16 - y otherwise, whose index lies behind the storage;
\* both outcomes are a panic, reported as -1.
FbIndex(fb, x, y) ==
    IF fb.height = 0 \/ y > fb.height - 1 THEN -1
    ELSE LET idx == ((fb.height - 1) - y) * fb.width + x
         IN  IF idx >= Len(fb.buf) THEN -1 ELSE idx

\* the write of plot_pixel at the index idx
PlotAt(fb, idx, value) ==
    IF idx < 0 THEN [fb |-> fb, panic |-> TRUE]
    ELSE [fb |-> [fb EXCEPT !.buf[idx + 1] = value], panic |-> FALSE]

\* Framebuffer::plot_pixel: the new framebuffer, and whether the call panicked
plot_pixel(fb, x, y, value) == PlotAt(fb, FbIndex(fb, x, y), value)

\* the read of get_pixel at the index idx
GetAt(fb, idx) ==
    IF idx < 0 THEN [value |-> NaN, panic |-> TRUE]
    ELSE [value |-> fb.buf[idx + 1], panic |-> FALSE]

\* Framebuffer::get_pixel: the value read, and whether the call panicked
get_pixel(fb, x, y) == GetAt(fb, FbIndex(fb, x, y))

\* Framebuffer::resize without the store of the new width
resize_stale_width(fb, new_width, new_height, default) ==
    LET new_size == new_width * new_height
    IN  [width |-> fb.width, height |-> new_height,
         buf |-> [i \in 1..new_size |->
                    IF i <= Len(fb.buf) THEN fb.buf[i] ELSE default]]

\* Framebuffer::resize appending 0 instead of the caller's default
resize_zero_tail(fb, new_width, new_height, default) ==
    LET new_size == new_width * new_height
    IN  [width |-> new_width, height |-> new_height,
         buf |-> [i \in 1..new_size |->
                    IF i <= Len(fb.buf) THEN fb.buf[i] ELSE 0]]

\* Framebuffer::resize: Vec::resize keeps the leading elements and appends
\* `default` only to the elements that are new
resize(fb, new_width, new_height, default) ==
    LET new_size == new_width * new_height
    IN  [width |-> new_width, height |-> new_height,
         buf |-> [i \in 1..new_size |->
                    IF i <= Len(fb.buf) THEN fb.buf[i] ELSE default]]

\* a pixel coordinate pair lies in the buffer rectangle
InBounds(fb, x, y) == 0 <= x /\ x < fb.width /\ 0 <= y /\ y < fb.height

(***************************************************************************)
(* src/src/renderer.rs: screen-space transform                             *)
(***************************************************************************)
\* Mat4::from_cols for the halves of max_cols and max_rows
ScreenspaceCols(half_cols, half_rows) ==
    << <<half_cols, R(0), R(0), R(0)>>,
       <<R(0), half_rows, R(0), R(0)>>,
       <<R(0), R(0), R(1), R(0)>>,
       <<half_cols, half_rows, R(1), R(1)>> >>

\* calculate_screenspace_matrix with max_cols = width and max_rows = height
calculate_screenspace_matrix_full_size(width, height) ==
    ScreenspaceCols(Div(R(width), R(2)), Div(R(height), R(2)))

\* the Mat4 as its four columns: max_cols = width - 1, max_rows = height - 1
calculate_screenspace_matrix(width, height) ==
    ScreenspaceCols(Div(Sub(R(width), R(1)), R(2)), Div(Sub(R(height), R(1)), R(2)))

\* Mat4 * Vec4
MatMulVec(m, v) ==
    [r \in 1..4 |->
        Add(Add(Mul(m[1][r], v[1]), Mul(m[2][r], v[2])),
            Add(Mul(m[3][r], v[3]), Mul(m[4][r], v[4])))]

\* the perspective divide applied to x and y only
PerspectiveDivide_xy_only(p) == <<Div(p[1], p[4]), Div(p[2], p[4]), p[3], p[4]>>

\* the perspective divide of draw: (xyz / w).extend(w)
PerspectiveDivide(p) == <<Div(p[1], p[4]), Div(p[2], p[4]), Div(p[3], p[4]), p[4]>>

\* the screen-space position of a divided vertex: (M * xyz.extend(1)).xy()
ToScreen(m, p) == XY(MatMulVec(m, <<p[1], p[2], p[3], R(1)>>))

(***************************************************************************)
(* src/src/renderer.rs: rasterizers.  The buffers a rasterizer works on    *)
(* are threaded as st = [cb, db, panic, oob]: panic is set by the first    *)
(* panicking operation, which ends the call; oob records whether some      *)
(* framebuffer access was made with coordinates outside the rectangle.     *)
(***************************************************************************)
RECURSIVE BitOr(_, _)
BitOr(a, b) ==
    IF a = 0 THEN b
    ELSE IF b = 0 THEN a
    ELSE 2 * BitOr(a \div 2, b \div 2) + (IF a % 2 = 1 \/ b % 2 = 1 THEN 1 ELSE 0)

\* PackColor with the red and the blue channel exchanged
PackColor_bgr(frag_output) ==
    BitOr(BitOr(frag_output[1], frag_output[2] * 256), frag_output[3] * 65536)

\* frag_output.z | (frag_output.y << 8) | (frag_output.x << 16), for
\* channel values below 2^8 (no bit is shifted out of the u32)
PackColor(frag_output) ==
    BitOr(BitOr(frag_output[3], frag_output[2] * 256), frag_output[1] * 65536)

tri_area_signed_squared(p0, p1, p2) == PerpDot(VSub(p1, p0), VSub(p2, p0))

\* Vec2::as_ivec2
AsIVec2(p) == <<AsI32(p[1]), AsI32(p[2])>>

Min2(a, b) == IF a < b THEN a ELSE b

Max2(a, b) == IF a > b THEN a ELSE b

tri_bounding_box(p0, p1, p2) ==
    LET min_x == Min2(p0[1], Min2(p1[1], p2[1]))
        max_x == Max2(p0[1], Max2(p1[1], p2[1]))
        min_y == Min2(p0[2], Min2(p1[2], p2[2]))
        max_y == Max2(p0[2], Max2(p1[2], p2[2]))
    IN  [origin |-> <<min_x, min_y>>, width |-> max_x - min_x, height |-> max_y - min_y]

\* st with the access of fb at (x, y) recorded
Accessed(st, fb, x, y) == [st EXCEPT !.oob = st.oob \/ ~InBounds(fb, x, y)]

\* ZTest letting a fragment of equal depth pass (<= for <)
ZTest_le(z_depth, depth) == Le(z_depth, depth)

\* ZTest rejecting a fragment by !(z >= depth), which a NaN depth passes
ZTest_not_ge(z_depth, depth) == ~Ge(z_depth, depth)

\* the depth test with the comparison reversed
ZTest_gt(z_depth, depth) == Gt(z_depth, depth)

\* the z test: z_depth < self.db.get_pixel(x, y)
ZTest(z_depth, depth) == Lt(z_depth, depth)

\* the buffers after the two plot_pixel calls d (depth) and c (colour)
Written(st, d, c) ==
    IF d.panic THEN [st EXCEPT !.panic = TRUE]
    ELSE IF c.panic THEN [st EXCEPT !.db = d.fb, !.panic = TRUE]
    ELSE [st EXCEPT !.db = d.fb, !.cb = c.fb]

\* WriteFragment without the write to the depth buffer
WriteFragment_no_depth_write(st, ux, uy, z_depth, fb_color) ==
    Written(st, [fb |-> st.db, panic |-> FALSE], plot_pixel(st.cb, ux, uy, fb_color))

\* the two writes of a fragment that passed the z test
WriteFragment(st, ux, uy, z_depth, fb_color) ==
    Written(st, plot_pixel(st.db, ux, uy, z_depth), plot_pixel(st.cb, ux, uy, fb_color))

\* the z test on the depth read g, and the writes
TestFragment(st, ux, uy, z_depth, fb_color, g) ==
    IF g.panic THEN [st EXCEPT !.panic = TRUE]
    ELSE IF ZTest(z_depth, g.value) THEN WriteFragment(st, ux, uy, z_depth, fb_color)
    ELSE st

\* the z test and the two writes of plot_triangle at (x as u16, y as u16)
DepthTestAndWrite(st, ux, uy, z_depth, fb_color) ==
    TestFragment(Accessed(st, st.db, ux, uy), ux, uy, z_depth, fb_color,
                 get_pixel(st.db, ux, uy))

\* the fragment at a covered pixel, from its normalised barycentric
\* coordinates
ShadeFragment(st, x, y, barycentric_coords, t) ==
    DepthTestAndWrite(st, I32AsU16(x), I32AsU16(y),
        interpolated(t.clip_z[1], barycentric_coords, t.clip_z[2], t.clip_z[3]),
        PackColor(fragment(t.program,
            interpolated(t.inputs[1], barycentric_coords, t.inputs[2], t.inputs[3]))))

\* PlotFragment accepting either winding: all three edge functions >= 0, or
\* all three <= 0
PlotFragment_two_sided(st, x, y, ef, t) ==
    IF \/ Ge(ef[1], R(0)) /\ Ge(ef[2], R(0)) /\ Ge(ef[3], R(0))
       \/ Le(ef[1], R(0)) /\ Le(ef[2], R(0)) /\ Le(ef[3], R(0))
    THEN ShadeFragment(st, x, y, VDiv(<<ef[2], ef[3], ef[1]>>, t.area), t)
    ELSE st

\* the body of the loop over x of plot_triangle, before the increments
PlotFragment(st, x, y, ef, t) ==
    IF Ge(ef[1], R(0)) /\ Ge(ef[2], R(0)) /\ Ge(ef[3], R(0))
    THEN ShadeFragment(st, x, y, VDiv(<<ef[2], ef[3], ef[1]>>, t.area), t)
    ELSE st

\* StepColumn adding the x differences instead of the y differences
StepColumn_dx(ef, t) == <<Add(ef[1], t.dx[1]), Add(ef[2], t.dx[2]), Add(ef[3], t.dx[3])>>

\* the end of the body of the loop over x: efa += dya; efb += dyb; efc += dyc
StepColumn(ef, t) == <<Add(ef[1], t.dy[1]), Add(ef[2], t.dy[2]), Add(ef[3], t.dy[3])>>

\* the end of the body of the loop over y, from the values saved at the
\* start of the row: efa = saved_efa; efa -= dxa; and so on
StepRow(saved_ef, t) ==
    <<Sub(saved_ef[1], t.dx[1]), Sub(saved_ef[2], t.dx[2]), Sub(saved_ef[3], t.dx[3])>>

\* the loop over x: ef = <<efa, efb, efc>> is advanced by <<dya, dyb, dyc>>
RECURSIVE PlotRow(_, _, _, _, _)
PlotRow(st, x, y, ef, t) ==
    IF x > t.bb.origin[1] + t.bb.width \/ st.panic THEN st
    ELSE PlotRow(PlotFragment(st, x, y, ef, t), x + 1, y,
                 StepColumn(ef, t), t)

\* the loop over y: the values saved at the start of the row are restored
\* and reduced by <<dxa, dxb, dxc>>
RECURSIVE PlotRows(_, _, _, _)
PlotRows(st, y, ef, t) ==
    IF y > t.bb.origin[2] + t.bb.height \/ st.panic THEN st
    ELSE PlotRows(PlotRow(st, t.bb.origin[1], y, ef, t), y + 1,
                  StepRow(ef, t), t)

\* the values plot_triangle computes before its loops
TriSetup(p0, p1, p2, bb, clip_z, program, program_inputs) ==
    [area |-> tri_area_signed_squared(p0, p1, p2), bb |-> bb, clip_z |-> clip_z,
     start_pix |-> <<R(bb.origin[1]), R(bb.origin[2])>>,
     program |-> program, inputs |-> program_inputs,
     dx |-> <<Sub(p0[1], p1[1]), Sub(p1[1], p2[1]), Sub(p2[1], p0[1])>>,
     dy |-> <<Sub(p0[2], p1[2]), Sub(p1[2], p2[2]), Sub(p2[2], p0[2])>>]

\* efa, efb, efc at start_pix
StartEdgeFunctions(p0, p1, p2, start_pix) ==
    <<tri_area_signed_squared(p0, p1, start_pix),
      tri_area_signed_squared(p1, p2, start_pix),
      tri_area_signed_squared(p2, p0, start_pix)>>

\* the loops of plot_triangle
PlotTriangleLoops(st, p0, p1, p2, t) ==
    PlotRows(st, t.bb.origin[2], StartEdgeFunctions(p0, p1, p2, t.start_pix), t)

plot_triangle(st, p0, p1, p2, clip_z, program, program_inputs) ==
    PlotTriangleLoops(st, p0, p1, p2,
        TriSetup(p0, p1, p2, tri_bounding_box(AsIVec2(p0), AsIVec2(p1), AsIVec2(p2)),
                 clip_z, program, program_inputs))

\* the buffers after the plot_pixel call c on the colour buffer
Plotted(st, c) == [st EXCEPT !.cb = c.fb, !.panic = c.panic]

\* PlotLineAt with a depth test: a pixel a filled triangle has covered (its
\* stored depth is below the clear depth 1.0) is skipped
PlotLineAt_depth_tested(st, px, py, fb_color) ==
    IF InBounds(st.db, px, py) /\ Lt(get_pixel(st.db, px, py).value, R(1))
    THEN Accessed(st, st.cb, px, py)
    ELSE Plotted(Accessed(st, st.cb, px, py), plot_pixel(st.cb, px, py, fb_color))

\* the write of plot_line at (px, py)
PlotLineAt(st, px, py, fb_color) ==
    Plotted(Accessed(st, st.cb, px, py), plot_pixel(st.cb, px, py, fb_color))

\* PlotLinePixel without the swap back to screen space for a y-driven line
PlotLinePixel_no_swap_back(st, x, y, l) ==
    PlotLineAt(st, I32AsU16(x), F32AsU16(y),
        PackColor(fragment(l.program,
            tri_barycentric_interpolate_edge(l.p1_orig, l.p2_orig,
                <<R(x), R(AsI32(y))>>, l.p1_input, l.p2_input))))

\* the body of the loop over x of plot_line up to the write
PlotLinePixel(st, x, y, l) ==
    PlotLineAt(st,
        IF l.y_long THEN F32AsU16(y) ELSE I32AsU16(x),
        IF l.y_long THEN I32AsU16(x) ELSE F32AsU16(y),
        PackColor(fragment(l.program,
            tri_barycentric_interpolate_edge(l.p1_orig, l.p2_orig,
                <<R(x), R(AsI32(y))>>, l.p1_input, l.p2_input))))

RECURSIVE PlotLineLoop(_, _, _, _, _)
PlotLineLoop(st, x, y, eps, l) ==
    IF x >= l.x_end \/ st.panic THEN st
    ELSE LET step == Ge(eps, R(0))
             y2   == IF step THEN Add(y, l.sign) ELSE y
             eps2 == Add(IF step THEN Sub(eps, l.dx) ELSE eps, l.dy_abs)
         IN  PlotLineLoop(PlotLinePixel(st, x, y, l), x + 1, y2, eps2, l)

\* PlotLineSteps with a loop over p1.x as i32..=p2.x as i32
PlotLineSteps_inclusive(st, p1, p2, dx, dy, l) ==
    PlotLineLoop(st, AsI32(p1[1]), p1[2], Sub(FAbs(dy), FAbs(dx)),
        [p1_orig |-> l.p1_orig, p2_orig |-> l.p2_orig, y_long |-> l.y_long,
         p1_input |-> l.p1_input, p2_input |-> l.p2_input, program |-> l.program,
         dx |-> dx, dy_abs |-> FAbs(dy), x_end |-> AsI32(p2[1]) + 1,
         sign |-> IF Ge(dy, R(0)) THEN R(1) ELSE R(-1)])

\* plot_line from dx and dy on: eps, y, sign and the loop
PlotLineSteps(st, p1, p2, dx, dy, l) ==
    PlotLineLoop(st, AsI32(p1[1]), p1[2], Sub(FAbs(dy), FAbs(dx)),
        [p1_orig |-> l.p1_orig, p2_orig |-> l.p2_orig, y_long |-> l.y_long,
         p1_input |-> l.p1_input, p2_input |-> l.p2_input, program |-> l.program,
         dx |-> dx, dy_abs |-> FAbs(dy), x_end |-> AsI32(p2[1]),
         sign |-> IF Ge(dy, R(0)) THEN R(1) ELSE R(-1)])

\* plot_line once p1 comes before p2 on the driving axis
PlotLineOrdered(st, p1, p2, l) ==
    PlotLineSteps(st, p1, p2, Sub(p2[1], p1[1]), Sub(p2[2], p1[2]), l)

\* plot_line from the saved p1_orig and p2_orig on: the swap if p1.x > p2.x
PlotLineSaved(st, p1_orig, p2_orig, l) ==
    PlotLineOrdered(st, IF Gt(p1_orig[1], p2_orig[1]) THEN p2_orig ELSE p1_orig,
                    IF Gt(p1_orig[1], p2_orig[1]) THEN p1_orig ELSE p2_orig,
                    [p1_orig |-> p1_orig, p2_orig |-> p2_orig, y_long |-> l.y_long,
                     p1_input |-> l.p1_input, p2_input |-> l.p2_input,
                     program |-> l.program])

\* plot_line from y_long on: the flip of both points if y_long
PlotLineFlip(st, a, b, y_long, program, p1_input, p2_input) ==
    PlotLineSaved(st, IF y_long THEN YX(a) ELSE a, IF y_long THEN YX(b) ELSE b,
                  [y_long |-> y_long, p1_input |-> p1_input, p2_input |-> p2_input,
                   program |-> program])

plot_line(st, a, b, program, p1_input, p2_input) ==
    IF FEq(a[1], b[1]) /\ FEq(a[2], b[2]) THEN st
    ELSE PlotLineFlip(st, a, b, Gt(FAbs(Sub(a[2], b[2])), FAbs(Sub(a[1], b[1]))),
                      program, p1_input, p2_input)

(***************************************************************************)
(* src/src/renderer.rs: the pipeline driver                                *)
(***************************************************************************)
\* the three plot_line calls of the WIREFRAME arm: sp[0] to sp[1], sp[1] to
\* sp[2], sp[2] to sp[0]
RECURSIVE WireEdges(_, _, _, _, _)
WireEdges(st, sp, program, inputs, k) ==
    IF k > 3 \/ st.panic THEN st
    ELSE WireEdges(plot_line(st, sp[k], sp[(k % 3) + 1], program,
                             inputs[k], inputs[(k % 3) + 1]),
                   sp, program, inputs, k + 1)

DrawWireframe(st, sp, program, inputs) == WireEdges(st, sp, program, inputs, 1)

\* the match on draw_mode for the screen-space triangle sp
DrawScreenTriangle(st, mode, sp, clip_z, shader, inputs) ==
    IF mode = "REGULAR"
    THEN plot_triangle(st, sp[1], sp[2], sp[3], clip_z, shader, inputs)
    ELSE DrawWireframe(st, sp, shader, inputs)

\* the screen-space transform of the divided positions clip_pos
DrawDivided(st, mode, m, clip_pos, shader, inputs) ==
    DrawScreenTriangle(st, mode, [k \in 1..3 |-> ToScreen(m, clip_pos[k])],
                       <<clip_pos[1][3], clip_pos[2][3], clip_pos[3][3]>>,
                       shader, inputs)

\* the body of the loop over j: one triangle of the fan
DrawFanTriangle(st, mode, m, tri, shader) ==
    DrawDivided(st, mode, m, [k \in 1..3 |-> PerspectiveDivide(tri[1][k])],
                shader, tri[2])

RECURSIVE DrawFan(_, _, _, _, _, _)
DrawFan(st, mode, m, final_tris, j, shader) ==
    IF j > Len(final_tris) \/ st.panic THEN st
    ELSE DrawFan(DrawFanTriangle(st, mode, m, final_tris[j], shader),
                 mode, m, final_tris, j + 1, shader)

\* the loop over the triangles clip_triangle returned
DrawClipped(st, mode, m, c, shader) ==
    IF c.panic THEN [st EXCEPT !.panic = TRUE]
    ELSE DrawFan(st, mode, m, c.tris, 1, shader)

\* the body of the loop over i: one index triple.  Indexing ibo or vbo
\* behind its end panics.
DrawPrimitive(st, mode, m, shader, vbo, ibo, i) ==
    IF i + 2 >= Len(ibo) THEN [st EXCEPT !.panic = TRUE]
    ELSE IF ibo[i + 1] >= Len(vbo) \/ ibo[i + 2] >= Len(vbo) \/ ibo[i + 3] >= Len(vbo)
         THEN [st EXCEPT !.panic = TRUE]
    ELSE DrawClipped(st, mode, m,
                     clip_triangle(vertex(shader, vbo[ibo[i + 1] + 1]),
                                   vertex(shader, vbo[ibo[i + 2] + 1]),
                                   vertex(shader, vbo[ibo[i + 3] + 1])),
                     shader)

\* for i in (0..ibo.len()).step_by(3)
RECURSIVE DrawLoop(_, _, _, _, _, _, _)
DrawLoop(st, mode, m, shader, vbo, ibo, i) ==
    IF i >= Len(ibo) \/ st.panic THEN st
    ELSE DrawLoop(DrawPrimitive(st, mode, m, shader, vbo, ibo, i),
                  mode, m, shader, vbo, ibo, i + 3)

\* Renderer::draw on the renderer r = [cb, db, draw_mode, screenspace_matrix]
draw(r, shader, vbo, ibo) ==
    DrawLoop([cb |-> r.cb, db |-> r.db, panic |-> FALSE, oob |-> FALSE],
             r.draw_mode, r.screenspace_matrix, shader, vbo, ibo, 0)

\* Renderer::new with the depth buffer filled with the far value 1.0
RendererNew_far_depth(width, height) ==
    [cb |-> FbNew(width, height, 0),
     db |-> FbNew(width, height, R(1)),
     draw_mode |-> "REGULAR",
     screenspace_matrix |-> calculate_screenspace_matrix(width, height)]

\* Renderer::new
RendererNew(width, height) ==
    [cb |-> FbNew(width, height, 0),
     db |-> FbNew(width, height, R(0)),
     draw_mode |-> "REGULAR",
     screenspace_matrix |-> calculate_screenspace_matrix(width, height)]

\* the renderer held by the state variables
Self == [cb |-> cb, db |-> db, draw_mode |-> draw_mode,
         screenspace_matrix |-> screenspace_matrix]

\* the fields of the renderer r are held by the state variables
Holds(r) ==
    /\ cb = r.cb
    /\ db = r.db
    /\ draw_mode = r.draw_mode
    /\ screenspace_matrix = r.screenspace_matrix

\* the state variables after Renderer::new(width, height)
RendererInit(width, height) ==
    /\ Holds(RendererNew(width, height))
    /\ status = "running"
    /\ oob = FALSE

\* the state variables after a rasterizing call that left the buffers st
Rasterized(st) ==
    /\ cb' = st.cb
    /\ db' = st.db
    /\ status' = IF st.panic THEN "panicked" ELSE "running"
    /\ oob' = st.oob

(***************************************************************************)
(* Specification Spec: the public operations of a Renderer                 *)
(***************************************************************************)
MaxDim == 3

\* framebuffer sizes tried by Renderer::new and set_fb_size
Dims == {<<2, MaxDim>>, <<MaxDim, MaxDim>>}

Red == <<255, 0, 0>>

Green == <<0, 255, 0>>

ClearColors == {0, 255}

\* the number of calls made on one Renderer
MaxCalls == 4

\* the vertex buffer: clip positions and varyings
Mesh ==
    << [pos |-> <<R(-1), R(-1), Q(1, 2), R(1)>>, attr |-> R(1)],    \* 0..2: z = 1/2
       [pos |-> <<R(1), R(-1), Q(1, 2), R(1)>>, attr |-> R(2)],
       [pos |-> <<R(-1), R(1), Q(1, 2), R(1)>>, attr |-> R(4)],
       [pos |-> <<R(-1), R(-1), Q(1, 5), R(1)>>, attr |-> R(1)],    \* 3..5: z = 1/5
       [pos |-> <<R(1), R(-1), Q(1, 5), R(1)>>, attr |-> R(2)],
       [pos |-> <<R(1), R(1), Q(1, 5), R(1)>>, attr |-> R(4)],
       [pos |-> <<R(-3), R(-3), R(0), R(1)>>, attr |-> R(1)],       \* 6..8: cuts three
       [pos |-> <<R(2), R(0), R(0), R(1)>>, attr |-> R(2)],         \*   corners
       [pos |-> <<R(0), R(2), R(0), R(1)>>, attr |-> R(4)],
       [pos |-> <<R(0), R(0), R(0), R(0)>>, attr |-> R(1)],         \* 9: w = 0
       [pos |-> <<R(0), R(0), R(-2), R(1)>>, attr |-> R(1)] >>      \* 10: behind near

\* the draw calls tried: the fragment colour and the index buffer
DrawInputs ==
    { <<Green, <<0, 1, 2>> >>, <<Red, <<3, 4, 5>> >>, <<Red, <<6, 7, 8>> >>,
      <<Red, <<9, 1, 2>> >>, <<Green, <<10, 4, 5>> >>,
      <<Red, <<0, 1, 2, 3>> >>, <<Green, <<3, 4, 5, 0, 1>> >> }

Init ==
    /\ \E d \in Dims : RendererInit(d[1], d[2])
    /\ call = [op |-> "new"]
    /\ script = [calls |-> <<>>, pc |-> 0]

\* the caller makes one more call, and at most MaxCalls of them
Counted ==
    /\ script.pc < MaxCalls
    /\ script' = [script EXCEPT !.pc = @ + 1]

\* Renderer::set_fb_size without the recalculation of the matrix
SetFbSize_stale_matrix(width, height) ==
    /\ status = "running"
    /\ Counted
    /\ cb' = resize(cb, width, height, 0)
    /\ db' = resize(db, width, height, R(0))
    /\ call' = [op |-> "set_fb_size", width |-> width, height |-> height]
    /\ oob' = FALSE
    /\ UNCHANGED <<draw_mode, screenspace_matrix, status>>

\* Renderer::set_fb_size
SetFbSize(width, height) ==
    /\ status = "running"
    /\ Counted
    /\ cb' = resize(cb, width, height, 0)
    /\ db' = resize(db, width, height, R(0))
    /\ screenspace_matrix' = calculate_screenspace_matrix(width, height)
    /\ call' = [op |-> "set_fb_size", width |-> width, height |-> height]
    /\ oob' = FALSE
    /\ UNCHANGED <<draw_mode, status>>

\* Renderer::clear_framebuffer
ClearFramebuffer(new_color) ==
    /\ status = "running"
    /\ Counted
    /\ cb' = fill(cb, new_color)
    /\ db' = fill(db, R(1))
    /\ call' = [op |-> "clear_framebuffer", new_color |-> new_color]
    /\ oob' = FALSE
    /\ UNCHANGED <<draw_mode, screenspace_matrix, status>>

\* Renderer::set_draw_mode
SetDrawMode(new_mode) ==
    /\ status = "running"
    /\ Counted
    /\ draw_mode' = new_mode
    /\ call' = [op |-> "set_draw_mode", new_mode |-> new_mode]
    /\ oob' = FALSE
    /\ UNCHANGED <<cb, db, screenspace_matrix, status>>

\* Renderer::draw
Draw(shader, vbo, ibo) ==
    /\ status = "running"
    /\ Counted
    /\ Rasterized(draw(Self, shader, vbo, ibo))
    /\ call' = [op |-> "draw", shader |-> shader, vbo |-> vbo, ibo |-> ibo]
    /\ UNCHANGED <<draw_mode, screenspace_matrix>>

Next ==
    \/ \E d \in Dims : SetFbSize(d[1], d[2])
    \/ \E c \in ClearColors : ClearFramebuffer(c)
    \/ \E m \in {"REGULAR", "WIREFRAME"} : SetDrawMode(m)
    \/ \E i \in DrawInputs : Draw([color |-> i[1]], Mesh, i[2])

Spec == Init /\ [][Next]_vars

(***************************************************************************)
(* Specification SpecClip: clip_triangle applied to bounded triangles      *)
(***************************************************************************)
CoordMax == 3

\* x and y of the clip positions tried
ClipXY == {<<-CoordMax, -CoordMax>>, <<0, CoordMax - 1>>, <<CoordMax - 1, 0>>, <<0, 0>>}

\* z and w of the clip positions tried: in front of, inside and on the
\* frustum, and w = 0 and w < 0
ClipZW == {<<0, 1>>, <<0, CoordMax + 1>>, <<-2, 1>>, <<0, 0>>, <<0, -1>>}

ClipPositions == {<<R(xy[1]), R(xy[2]), R(zw[1]), R(zw[2])>> : xy \in ClipXY, zw \in ClipZW}

\* the varyings given to the three vertices of a triangle
ClipAttrs == <<R(1), R(2), R(4)>>

ClipDim == 2

\* a fresh renderer, and a caller about to clip the three vertices that the
\* vertex stage returned
InitClip ==
    /\ RendererInit(ClipDim, ClipDim)
    /\ call = [op |-> "new"]
    /\ \E p0 \in ClipPositions, p1 \in ClipPositions, p2 \in ClipPositions :
          script = [calls |-> << [op |-> "clip_triangle",
                                  v |-> << <<p0, ClipAttrs[1]>>, <<p1, ClipAttrs[2]>>,
                                           <<p2, ClipAttrs[3]>> >>] >>,
                    pc |-> 0]

\* the next call of the script
Scripted(op) ==
    /\ status = "running"
    /\ script.pc < Len(script.calls)
    /\ script.calls[script.pc + 1].op = op
    /\ script' = [script EXCEPT !.pc = @ + 1]

NextCall == script.calls[script.pc + 1]

\* the caller's record of a clip_triangle call on v that returned c
Clipped(v, c) ==
    /\ call' = [op |-> "clip_triangle", v |-> v,
                polys |-> c.polys, tris |-> c.tris, panic |-> c.panic]
    /\ status' = IF c.panic THEN "panicked" ELSE "running"

\* the call of clip_triangle on the three vertices; the renderer is only read
ClipTriangleCall ==
    /\ Scripted("clip_triangle")
    /\ Clipped(NextCall.v, clip_triangle(NextCall.v[1], NextCall.v[2], NextCall.v[3]))
    /\ UNCHANGED <<cb, db, draw_mode, screenspace_matrix, oob>>

NextClip == ClipTriangleCall

SpecClip == InitClip /\ [][NextClip]_vars

(***************************************************************************)
(* Specification SpecTri: plot_triangle applied to bounded screen-space    *)
(* triangles on a cleared framebuffer and on one already drawn into        *)
(***************************************************************************)
TriDim == 3

\* Renderer::clear_framebuffer on the renderer r
clear_framebuffer(r, new_color) ==
    [r EXCEPT !.cb = fill(r.cb, new_color), !.db = fill(r.db, R(1))]

\* a renderer after Renderer::new(width, height) and clear_framebuffer(c)
Cleared(width, height, c) == clear_framebuffer(RendererNew(width, height), c)

\* screen-space positions inside the buffer rectangle
ScreenPoints ==
    { <<R(0), R(0)>>, <<R(TriDim - 1), R(0)>>, <<R(0), R(TriDim - 1)>>,
      <<R(TriDim - 1), R(TriDim - 1)>>, <<R(1), R(1)>>, <<Q(1, 2), Q(3, 2)>> }

\* the depths of the three vertices
ClipZs == { <<Q(1, 5), Q(1, 5), Q(1, 5)>>, <<Q(1, 2), Q(1, 2), Q(1, 2)>>,
            <<R(1), R(1), R(1)>>, <<R(0), Q(1, 2), R(1)>> }

\* the renderer r with the buffers st a draw call left
Drawn(r, st) == [r EXCEPT !.cb = st.cb, !.db = st.db]

\* r0, and r0 with the triangle 0, 1, 2 of Mesh (z = 1/2) drawn in green
WithGreenTriangle(r0) ==
    {r0, Drawn(r0, draw(r0, [color |-> Green], Mesh, <<0, 1, 2>>))}

\* the renderers plot_triangle is applied to: cleared, and cleared with a
\* triangle drawn
TriRenderers == WithGreenTriangle(Cleared(TriDim, TriDim, 0))

InitTri ==
    /\ \E r \in TriRenderers : Holds(r)
    /\ status = "running"
    /\ oob = FALSE
    /\ call = [op |-> "clear_framebuffer", new_color |-> 0]
    /\ \E p0 \in ScreenPoints, p1 \in ScreenPoints, p2 \in ScreenPoints, z \in ClipZs :
          script = [calls |-> << [op |-> "plot_triangle", p |-> <<p0, p1, p2>>,
                                  clip_z |-> z, program |-> [color |-> Red],
                                  program_inputs |-> ClipAttrs] >>,
                    pc |-> 0]

\* the call of plot_triangle made by the REGULAR arm of draw
PlotTriangleCall ==
    /\ Scripted("plot_triangle")
    /\ Rasterized(plot_triangle([cb |-> cb, db |-> db, panic |-> FALSE, oob |-> FALSE],
                                NextCall.p[1], NextCall.p[2], NextCall.p[3],
                                NextCall.clip_z, NextCall.program,
                                NextCall.program_inputs))
    /\ call' = NextCall
    /\ UNCHANGED <<draw_mode, screenspace_matrix>>

NextTri == PlotTriangleCall

SpecTri == InitTri /\ [][NextTri]_vars

(***************************************************************************)
(* Specification SpecOrder: two draw calls after a clear                   *)
(***************************************************************************)
OrderDim == 3

\* the two triangle shapes drawn: the lower left and the lower right half
\* of the screen, which share the pixels on and below both diagonals
FlatShapes ==
    { << <<-1, -1>>, <<1, -1>>, <<-1, 1>> >>, << <<-1, -1>>, <<1, -1>>, <<1, 1>> >> }

FlatDepths == {Q(1, 5), Q(1, 2), R(1)}

\* a vertex buffer holding one triangle of constant depth z
FlatVbo(shape, z) ==
    [k \in 1..3 |-> [pos |-> <<R(shape[k][1]), R(shape[k][2]), z, R(1)>>,
                     attr |-> ClipAttrs[k]]]

FlatDraws ==
    { [op |-> "draw", shader |-> [color |-> c], vbo |-> FlatVbo(sh, z), ibo |-> <<0, 1, 2>>] :
        c \in {Red, Green}, sh \in FlatShapes, z \in FlatDepths }

InitOrder ==
    /\ RendererInit(OrderDim, OrderDim)
    /\ call = [op |-> "new"]
    /\ \E c \in ClearColors, a \in FlatDraws, b \in FlatDraws :
          script = [calls |-> <<[op |-> "clear_framebuffer", new_color |-> c], a, b>>,
                    pc |-> 0]

\* the clear_framebuffer call of the script
ClearCall ==
    /\ Scripted("clear_framebuffer")
    /\ cb' = fill(cb, NextCall.new_color)
    /\ db' = fill(db, R(1))
    /\ call' = NextCall
    /\ oob' = FALSE
    /\ UNCHANGED <<draw_mode, screenspace_matrix, status>>

\* the next draw call of the script
DrawCall ==
    /\ Scripted("draw")
    /\ Rasterized(draw(Self, NextCall.shader, NextCall.vbo, NextCall.ibo))
    /\ call' = NextCall
    /\ UNCHANGED <<draw_mode, screenspace_matrix>>

NextOrder == ClearCall \/ DrawCall

SpecOrder == InitOrder /\ [][NextOrder]_vars

(***************************************************************************)
(* Specification SpecScene: a caller that clears, optionally draws a       *)
(* background, selects a draw mode and draws one triangle                  *)
(***************************************************************************)
White == <<255, 255, 255>>

\* a colour whose three channels differ: 0x123456
Teal == <<18, 52, 86>>

\* the widths (= heights) of the framebuffers of the scenes
SceneDims == {8, 16}

\* a triangle covering the whole screen, at depth 0
FullscreenTriangle ==
    << <<R(-1), R(-1), R(0), R(1)>>, <<R(3), R(-1), R(0), R(1)>>,
       <<R(-1), R(3), R(0), R(1)>> >>

\* a triangle with the first vertex in front of the near plane, and all
\* three vertices on the line y = 0
NearPlaneTriangle ==
    << <<R(0), R(0), R(-2), R(1)>>, <<R(2), R(0), R(1), R(1)>>,
       <<R(-2), R(0), R(1), R(1)>> >>

\* a triangle with the first vertex in front of the near plane, of positive
\* area on the screen
NearPlaneWedge ==
    << <<R(0), R(1), R(-2), R(1)>>, <<R(-2), R(-1), R(1), R(1)>>,
       <<R(2), R(-1), R(1), R(1)>> >>

\* a triangle inside the frustum whose vertices fall on pixel centres
CornerTriangle ==
    << <<R(-1), R(-1), R(0), R(1)>>, <<R(1), R(-1), R(0), R(1)>>,
       <<R(-1), R(1), R(0), R(1)>> >>

\* a triangle inside the frustum whose vertices fall between pixel centres,
\* at depth 1/2
InnerTriangle ==
    << <<Q(-1, 2), Q(-3, 4), Q(1, 2), R(1)>>, <<Q(3, 4), Q(-1, 4), Q(1, 2), R(1)>>,
       <<Q(-1, 4), Q(3, 4), Q(1, 2), R(1)>> >>

\* a triangle inside the frustum with w = 2, reaching from the near plane
\* (z = -w) to the far plane (z = w)
HomogeneousTriangle ==
    << <<R(-1), R(-1), R(-2), R(2)>>, <<R(1), R(-1), R(0), R(2)>>,
       <<R(-1), R(1), R(2), R(2)>> >>

\* the triangles drawn, as clip positions
SceneTriangles ==
    {FullscreenTriangle, NearPlaneTriangle, NearPlaneWedge, CornerTriangle, InnerTriangle,
     HomogeneousTriangle}

\* the vertex buffer of one triangle
SceneVbo(tri) == [k \in 1..3 |-> [pos |-> tri[k], attr |-> ClipAttrs[k]]]

\* a draw call of one triangle with a solid-colour fragment stage
SceneDraw(color, tri) ==
    [op |-> "draw", shader |-> [color |-> color], vbo |-> SceneVbo(tri), ibo |-> <<0, 1, 2>>]

\* the calls before the mode is selected: none, or a filled green triangle
\* that covers the screen at depth 1/5
SceneBackgrounds ==
    { <<>>,
      << SceneDraw(Green, << <<R(-1), R(-1), Q(1, 5), R(1)>>, <<R(3), R(-1), Q(1, 5), R(1)>>,
                             <<R(-1), R(3), Q(1, 5), R(1)>> >>) >> }

SceneScripts ==
    { <<[op |-> "clear_framebuffer", new_color |-> c]>> \o bg \o
      <<[op |-> "set_draw_mode", new_mode |-> m], SceneDraw(col, t)>> :
        c \in ClearColors, bg \in SceneBackgrounds, m \in {"REGULAR", "WIREFRAME"},
        col \in {Red, White, Teal}, t \in SceneTriangles }

InitScene ==
    /\ \E d \in SceneDims : RendererInit(d, d)
    /\ call = [op |-> "new"]
    /\ \E s \in SceneScripts : script = [calls |-> s, pc |-> 0]

\* the set_draw_mode call of the script
SetDrawModeCall ==
    /\ Scripted("set_draw_mode")
    /\ draw_mode' = NextCall.new_mode
    /\ call' = NextCall
    /\ oob' = FALSE
    /\ UNCHANGED <<cb, db, screenspace_matrix, status>>

NextScene == ClearCall \/ SetDrawModeCall \/ DrawCall

SpecScene == InitScene /\ [][NextScene]_vars

(***************************************************************************)
(* SpecFb: the operations of Framebuffer<u32> applied by a caller to the   *)
(* colour buffer of a new Renderer, at most FbCalls of them                *)
(***************************************************************************)
FbDim == 2

FbCalls == 2

FbSizes == 1..FbDim

FbCoords == 0..(FbDim - 1)

FbValues == {7, 9}

InitFb ==
    /\ \E w \in FbSizes, h \in FbSizes : RendererInit(w, h)
    /\ call = [op |-> "new"]
    /\ script = [calls |-> <<>>, pc |-> 0]

\* the caller makes one more framebuffer call
FbCounted ==
    /\ status = "running"
    /\ script.pc < FbCalls
    /\ script' = [script EXCEPT !.pc = @ + 1]

\* the caller's record of a plot_pixel call that left p
FbPlotted(p) ==
    /\ cb' = p.fb
    /\ status' = IF p.panic THEN "panicked" ELSE "running"

\* Framebuffer::plot_pixel on the colour buffer
FbPlotPixel(x, y, value) ==
    /\ FbCounted
    /\ FbPlotted(plot_pixel(cb, x, y, value))
    /\ call' = [op |-> "plot_pixel", x |-> x, y |-> y, value |-> value]
    /\ UNCHANGED <<db, draw_mode, screenspace_matrix, oob>>

\* the caller's record of a get_pixel(x, y) call that returned g
FbGot(x, y, g) ==
    /\ call' = [op |-> "get_pixel", x |-> x, y |-> y, ret |-> g.value]
    /\ status' = IF g.panic THEN "panicked" ELSE "running"

\* Framebuffer::get_pixel on the colour buffer
FbGetPixel(x, y) ==
    /\ FbCounted
    /\ FbGot(x, y, get_pixel(cb, x, y))
    /\ UNCHANGED <<cb, db, draw_mode, screenspace_matrix, oob>>

\* Framebuffer::fill on the colour buffer
FbFill(value) ==
    /\ FbCounted
    /\ cb' = fill(cb, value)
    /\ call' = [op |-> "fill", value |-> value]
    /\ UNCHANGED <<db, draw_mode, screenspace_matrix, status, oob>>

\* Framebuffer::resize on the colour buffer
FbResize(new_width, new_height, default) ==
    /\ FbCounted
    /\ cb' = resize(cb, new_width, new_height, default)
    /\ call' = [op |-> "resize", new_width |-> new_width, new_height |-> new_height,
                default |-> default]
    /\ UNCHANGED <<db, draw_mode, screenspace_matrix, status, oob>>

NextFb ==
    \/ \E x \in FbCoords, y \in FbCoords, v \in FbValues : FbPlotPixel(x, y, v)
    \/ \E x \in FbCoords, y \in FbCoords : FbGetPixel(x, y)
    \/ \E v \in FbValues : FbFill(v)
    \/ \E w \in FbSizes, h \in FbSizes, v \in FbValues : FbResize(w, h, v)

SpecFb == InitFb /\ [][NextFb]_vars

(***************************************************************************)
(* SpecLine: plot_line, as the WIREFRAME arm of draw calls it, on a        *)
(* cleared renderer and two screen-space points inside the buffers         *)
(***************************************************************************)
LineDim == 4

\* the coordinates tried: pixel centres, and positions between them
LineCoords == {R(k) : k \in 0..(LineDim - 1)} \cup {Q(1, 2), Q(3, 2), Q(5, 2)}

LinePoints == LineCoords \X LineCoords

InitLine ==
    /\ Holds(Cleared(LineDim + 1, LineDim + 1, 0))
    /\ status = "running"
    /\ oob = FALSE
    /\ call = [op |-> "clear_framebuffer", new_color |-> 0]
    /\ \E p1 \in LinePoints, p2 \in LinePoints :
          script = [calls |-> << [op |-> "plot_line", p1 |-> p1, p2 |-> p2,
                                  program |-> [color |-> Red],
                                  p1_input |-> ClipAttrs[1],
                                  p2_input |-> ClipAttrs[2]] >>,
                    pc |-> 0]

\* one of the plot_line calls made by the WIREFRAME arm of draw
PlotLineCall ==
    /\ Scripted("plot_line")
    /\ Rasterized(plot_line([cb |-> cb, db |-> db, panic |-> FALSE, oob |-> FALSE],
                            NextCall.p1, NextCall.p2, NextCall.program,
                            NextCall.p1_input, NextCall.p2_input))
    /\ call' = NextCall
    /\ UNCHANGED <<draw_mode, screenspace_matrix>>

NextLine == PlotLineCall

SpecLine == InitLine /\ [][NextLine]_vars

(***************************************************************************)
(* SpecFresh: a new Renderer drawn to before its first clear_framebuffer:  *)
(* an optional set_fb_size, a set_draw_mode, a draw, and the same draw     *)
(* again after a clear_framebuffer                                         *)
(***************************************************************************)
FreshDim == 8

\* the calls before the mode is selected: none, or a set_fb_size that grows
\* the buffers
FreshPrefixes ==
    { <<>>, <<[op |-> "set_fb_size", width |-> 2 * FreshDim, height |-> 2 * FreshDim]>> }

FreshScripts ==
    { pre \o <<[op |-> "set_draw_mode", new_mode |-> m], SceneDraw(col, t),
               [op |-> "clear_framebuffer", new_color |-> c], SceneDraw(col, t)>> :
        pre \in FreshPrefixes, m \in {"REGULAR", "WIREFRAME"}, col \in {Red, Teal},
        t \in SceneTriangles, c \in ClearColors }

InitFresh ==
    /\ RendererInit(FreshDim, FreshDim)
    /\ call = [op |-> "new"]
    /\ \E s \in FreshScripts : script = [calls |-> s, pc |-> 0]

\* the set_fb_size call of the script
SetFbSizeCall ==
    /\ Scripted("set_fb_size")
    /\ cb' = resize(cb, NextCall.width, NextCall.height, 0)
    /\ db' = resize(db, NextCall.width, NextCall.height, R(0))
    /\ screenspace_matrix' = calculate_screenspace_matrix(NextCall.width, NextCall.height)
    /\ call' = NextCall
    /\ oob' = FALSE
    /\ UNCHANGED <<draw_mode, status>>

NextFresh == SetFbSizeCall \/ SetDrawModeCall \/ DrawCall \/ ClearCall

SpecFresh == InitFresh /\ [][NextFresh]_vars

(***************************************************************************)
(* SpecEdge: compute_clipping_intersection as clip_triangle calls it, on   *)
(* an edge prev -> curr with exactly one end point inside the plane        *)
(***************************************************************************)
\* the edges that cross the plane of the pass clip_plane_idx
CrossingEdges(clip_plane_idx) ==
    {e \in ClipPositions \X ClipPositions :
        Inside(ClipPlaneAt(clip_plane_idx), e[1]) # Inside(ClipPlaneAt(clip_plane_idx), e[2])}

InitEdge ==
    /\ RendererInit(ClipDim, ClipDim)
    /\ call = [op |-> "new"]
    /\ \E i \in 0..5 : \E e \in CrossingEdges(i) :
          script = [calls |-> << [op |-> "compute_clipping_intersection",
                                  from |-> <<e[1], ClipAttrs[1]>>,
                                  to |-> <<e[2], ClipAttrs[2]>>,
                                  plane |-> ClipPlaneAt(i)] >>,
                    pc |-> 0]

\* the call of compute_clipping_intersection(prev, curr, plane); the
\* renderer is only read
ComputeIntersectionCall ==
    /\ Scripted("compute_clipping_intersection")
    /\ call' = [op |-> "compute_clipping_intersection", from |-> NextCall.from,
                to |-> NextCall.to, plane |-> NextCall.plane,
                ret |-> compute_clipping_intersection(NextCall.from, NextCall.to,
                                                      NextCall.plane)]
    /\ UNCHANGED <<cb, db, draw_mode, screenspace_matrix, status, oob>>

NextEdge == ComputeIntersectionCall

SpecEdge == InitEdge /\ [][NextEdge]_vars

(***************************************************************************)
(* Properties of clip_triangle, checked under SpecClip                     *)
(***************************************************************************)
ClipCalled == call.op = "clip_triangle"

\* the clip positions of all vertices of all returned triangles
ReturnedPositions == {call.tris[j][1][k] : j \in 1..Len(call.tris), k \in 1..3}

InputPositions == {call.v[k][1] : k \in 1..3}

InFrustum(p) ==
    /\ Le(Neg(p[4]), p[1]) /\ Le(p[1], p[4])
    /\ Le(Neg(p[4]), p[2]) /\ Le(p[2], p[4])
    /\ Le(Neg(p[4]), p[3]) /\ Le(p[3], p[4])

StrictlyInFrustum(p) ==
    /\ Lt(Neg(p[4]), p[1]) /\ Lt(p[1], p[4])
    /\ Lt(Neg(p[4]), p[2]) /\ Lt(p[2], p[4])
    /\ Lt(Neg(p[4]), p[3]) /\ Lt(p[3], p[4])

\* C2: for every input triangle the polygon after each of the six passes
\* has at most 6 vertices and the fan at most 4 triangles, so neither
\* fixed capacity is exceeded (no push onto a full ArrayVec).
C2_CapacitiesNeverExceeded ==
    ClipCalled =>
        /\ ~call.panic
        /\ Len(call.polys) = 6
        /\ \A i \in 1..Len(call.polys) : Len(call.polys[i]) <= PolyCap
        /\ Len(call.tris) <= TriCap

\* C3: every vertex of every triangle returned by clip_triangle satisfies
\* -w <= x <= w, -w <= y <= w and -w <= z <= w.
C3_ClipInside == ClipCalled => \A p \in ReturnedPositions : InFrustum(p)

\* C3 witness: a call that returned triangles with a vertex created by
\* clipping
C3_Witness ==
    /\ ClipCalled
    /\ ~call.panic
    /\ \E p \in ReturnedPositions : p \notin InputPositions

\* C4: every vertex of every triangle returned by clip_triangle has w > 0.
C4_ReturnedWPositive == ClipCalled => \A p \in ReturnedPositions : Gt(p[4], R(0))

\* C5: a triangle whose three vertices are strictly inside the frustum is
\* returned as exactly one triangle with the same positions and the same
\* varyings in the same order.
C5_ClipPreservation ==
    (ClipCalled /\ \A k \in 1..3 : StrictlyInFrustum(call.v[k][1])) =>
        /\ ~call.panic
        /\ call.tris = << << <<call.v[1][1], call.v[2][1], call.v[3][1]>>,
                             <<call.v[1][2], call.v[2][2], call.v[3][2]>> >> >>

\* C5 witness: a clipped triangle of three different strictly inside vertices
C5_Witness ==
    /\ ClipCalled
    /\ \A k \in 1..3 : StrictlyInFrustum(call.v[k][1])
    /\ Cardinality(InputPositions) = 3

\* C6: a triangle whose three vertices fail the same half-space test is
\* returned as zero triangles, whatever their relation to the other planes.
C6_ClipNull ==
    (/\ ClipCalled
     /\ \E i \in 0..5 : \A k \in 1..3 : ~Inside(ClipPlaneAt(i), call.v[k][1])) =>
        /\ ~call.panic
        /\ call.tris = <<>>

(***************************************************************************)
(* Properties of Renderer::draw, checked under Spec                        *)
(***************************************************************************)
\* the complete index triples of an index buffer
CompleteTriples(ibo) == SubSeq(ibo, 1, 3 * (Len(ibo) \div 3))

\* C1: a draw call whose index buffer length is not a multiple of 3 does
\* not fail; it leaves the buffers as the same call without the 1 or 2
\* trailing indices would.
C1_TrailingIndicesIgnored ==
    [][(call'.op = "draw" /\ Len(call'.ibo) % 3 # 0) =>
          LET st == draw(Self, call'.shader, call'.vbo, CompleteTriples(call'.ibo))
          IN  /\ status' = "running"
              /\ cb' = st.cb
              /\ db' = st.db]_vars

\* C7: a draw call in either mode on a well-formed index buffer does not
\* crash, whatever clip positions the vertex stage returns, and accesses
\* the framebuffers only at 0 <= x < width, 0 <= y < height.
C7_DrawDoesNotCrash ==
    (call.op = "draw" /\ Len(call.ibo) % 3 = 0) => (status = "running" /\ ~oob)

(***************************************************************************)
(* Properties of plot_triangle, checked under SpecTri                      *)
(***************************************************************************)
\* the value a framebuffer holds for the pixel (x, y)
PixelAt(fb, x, y) == get_pixel(fb, x, y).value

\* the three edge functions of the triangle tp at the pixel (x, y),
\* evaluated directly
EdgeFunctions(tp, x, y) ==
    LET pix == <<R(x), R(y)>>
    IN  <<tri_area_signed_squared(tp[1], tp[2], pix),
          tri_area_signed_squared(tp[2], tp[3], pix),
          tri_area_signed_squared(tp[3], tp[1], pix)>>

\* the pixel (x, y) is covered by the triangle tp
CoveredPixel(tp, x, y) ==
    LET ef == EdgeFunctions(tp, x, y)
    IN  Ge(ef[1], R(0)) /\ Ge(ef[2], R(0)) /\ Ge(ef[3], R(0))

\* the depth interpolated at (x, y) with the weights (efb, efc, efa) / area
DepthAt(tp, z, x, y) ==
    LET ef   == EdgeFunctions(tp, x, y)
        area == tri_area_signed_squared(tp[1], tp[2], tp[3])
    IN  Add(Add(Mul(z[1], Div(ef[2], area)), Mul(z[2], Div(ef[3], area))),
            Mul(z[3], Div(ef[1], area)))

\* the colour value 0x00RRGGBB
RGB(c) == c[1] * 65536 + c[2] * 256 + c[3]

Pixels(fb) == {<<x, y>> : x \in 0..(fb.width - 1), y \in 0..(fb.height - 1)}

\* C8: in filled mode, at a covered pixel with interpolated depth z, if
\* z < depth(x,y) then depth(x,y) becomes z and color(x,y) the packed
\* fragment colour; otherwise neither buffer changes at (x,y).
C8_DepthTest ==
    [][call'.op = "plot_triangle" =>
          \A px \in Pixels(db) :
             CoveredPixel(call'.p, px[1], px[2]) =>
                LET z == DepthAt(call'.p, call'.clip_z, px[1], px[2])
                IN  IF Lt(z, PixelAt(db, px[1], px[2]))
                    THEN /\ PixelAt(db', px[1], px[2]) = z
                         /\ PixelAt(cb', px[1], px[2]) = RGB(call'.program.color)
                    ELSE /\ PixelAt(db', px[1], px[2]) = PixelAt(db, px[1], px[2])
                         /\ PixelAt(cb', px[1], px[2]) = PixelAt(cb, px[1], px[2])]_vars

\* C8 witness: a plotted triangle of positive area with a covered pixel that
\* took its depth and colour and a covered pixel that kept a nearer depth
C8_Witness ==
    /\ call.op = "plot_triangle"
    /\ Gt(tri_area_signed_squared(call.p[1], call.p[2], call.p[3]), R(0))
    /\ \E px \in Pixels(db) :
          /\ CoveredPixel(call.p, px[1], px[2])
          /\ PixelAt(db, px[1], px[2]) = DepthAt(call.p, call.clip_z, px[1], px[2])
          /\ PixelAt(cb, px[1], px[2]) = RGB(call.program.color)
    /\ \E px \in Pixels(db) :
          /\ CoveredPixel(call.p, px[1], px[2])
          /\ Lt(PixelAt(db, px[1], px[2]), DepthAt(call.p, call.clip_z, px[1], px[2]))
          /\ PixelAt(cb, px[1], px[2]) = RGB(Green)

\* the three screen-space vertices are collinear
Collinear(tp) == tri_area_signed_squared(tp[1], tp[2], tp[3]) = R(0)

\* C10: a triangle whose screen-space vertices are collinear writes neither
\* the colour nor the depth buffer.
C10_DegenerateSkipped ==
    [][(call'.op = "plot_triangle" /\ Collinear(call'.p)) =>
          (cb' = cb /\ db' = db /\ status' = "running")]_vars

\* C10 witness: a plotted collinear triangle of three different vertices
\* with a pixel on its line, where all three edge functions are 0
C10_Witness ==
    /\ call.op = "plot_triangle"
    /\ Collinear(call.p)
    /\ Cardinality({call.p[1], call.p[2], call.p[3]}) = 3
    /\ \E px \in Pixels(db) : CoveredPixel(call.p, px[1], px[2])
    /\ \A px \in Pixels(db) : PixelAt(db, px[1], px[2]) = R(1)

(***************************************************************************)
(* Properties of two draw calls after a clear, checked under SpecOrder     *)
(***************************************************************************)
\* the renderer as the clear_framebuffer call of the script left it
AfterClear ==
    [cb |-> fill(cb, script.calls[1].new_color), db |-> fill(db, R(1)),
     draw_mode |-> draw_mode, screenspace_matrix |-> screenspace_matrix]

DrawA == script.calls[2]

DrawB == script.calls[3]

\* the colour image after drawing first and then second on the cleared buffers
ImageOf(first, second) ==
    LET s1 == draw(AfterClear, first.shader, first.vbo, first.ibo)
        r1 == [AfterClear EXCEPT !.cb = s1.cb, !.db = s1.db]
    IN  draw(r1, second.shader, second.vbo, second.ibo).cb

\* the constant depth of a flat triangle
FlatDepth(d) == d.vbo[1].pos[3]

\* the screen-space vertices of the triangle of a draw call (w = 1)
ScreenTri(d) == [k \in 1..3 |-> ToScreen(screenspace_matrix, d.vbo[k].pos)]

\* the pixels covered by both triangles
SharedPixels ==
    {px \in Pixels(cb) : /\ CoveredPixel(ScreenTri(DrawA), px[1], px[2])
                         /\ CoveredPixel(ScreenTri(DrawB), px[1], px[2])}

BothDrawn == script.pc = 3 /\ status = "running"

\* C9 as stated: the two orders give the same image iff the depths are
\* distinct; and green at 1/2 with red at 1/5 leaves red in both orders.
C9_OrderIffDistinct ==
    (BothDrawn /\ SharedPixels # {}) =>
        /\ (cb = ImageOf(DrawB, DrawA)) <=> (FlatDepth(DrawA) # FlatDepth(DrawB))
        /\ (/\ DrawA.shader.color = Green /\ FlatDepth(DrawA) = Q(1, 2)
            /\ DrawB.shader.color = Red /\ FlatDepth(DrawB) = Q(1, 5)) =>
              \A px \in SharedPixels :
                 /\ PixelAt(cb, px[1], px[2]) = RGB(Red)
                 /\ PixelAt(ImageOf(DrawB, DrawA), px[1], px[2]) = RGB(Red)

\* C9 as amended: distinct depths give the same image in both orders; with
\* equal depths the first drawn triangle keeps the shared pixels, so the
\* images agree exactly when the two colours are equal or the shared depth
\* is not below the cleared depth 1; and green at 1/2 with red at 1/5
\* leaves red at the shared pixels in both orders.
C9_OrderIndependence ==
    (BothDrawn /\ SharedPixels # {}) =>
        /\ FlatDepth(DrawA) # FlatDepth(DrawB) => cb = ImageOf(DrawB, DrawA)
        /\ FlatDepth(DrawA) = FlatDepth(DrawB) =>
              ((cb = ImageOf(DrawB, DrawA)) <=>
                  (\/ DrawA.shader.color = DrawB.shader.color
                   \/ ~Lt(FlatDepth(DrawA), R(1))))
        /\ (/\ DrawA.shader.color = Green /\ FlatDepth(DrawA) = Q(1, 2)
            /\ DrawB.shader.color = Red /\ FlatDepth(DrawB) = Q(1, 5)) =>
              \A px \in SharedPixels :
                 /\ PixelAt(cb, px[1], px[2]) = RGB(Red)
                 /\ PixelAt(ImageOf(DrawB, DrawA), px[1], px[2]) = RGB(Red)

\* C9 witness: green at 1/2 drawn before red at 1/5 on a different shape,
\* with the shared pixels red and a pixel of the green triangle left green
C9_Witness ==
    /\ BothDrawn
    /\ SharedPixels # {}
    /\ DrawA.shader.color = Green /\ FlatDepth(DrawA) = Q(1, 2)
    /\ DrawB.shader.color = Red /\ FlatDepth(DrawB) = Q(1, 5)
    /\ \A px \in SharedPixels : PixelAt(cb, px[1], px[2]) = RGB(Red)
    /\ \E px \in Pixels(cb) : PixelAt(cb, px[1], px[2]) = RGB(Green)

(***************************************************************************)
(* Properties of scenes, checked under SpecScene                           *)
(***************************************************************************)
\* every call of the script has been made
SceneDone == script.pc = Len(script.calls)

\* the last call of the script: the draw of the scene's triangle
SceneCall == script.calls[Len(script.calls)]

\* the clip positions of the triangle of the draw call d
TriangleOf(d) == <<d.vbo[1].pos, d.vbo[2].pos, d.vbo[3].pos>>

\* the scene had no background, the mode `mode`, the triangle tri and the
\* fragment colour color, on a dim x dim framebuffer
SceneIs(dim, mode, tri, color) ==
    /\ SceneDone
    /\ Len(script.calls) = 3
    /\ cb.width = dim /\ cb.height = dim
    /\ script.calls[2].new_mode = mode
    /\ TriangleOf(SceneCall) = tri
    /\ SceneCall.shader.color = color

\* C11: on a cleared 8x8 Renderer in filled mode, drawing the triangle
\* (-1,-1,0,1),(3,-1,0,1),(-1,3,0,1) with a fragment stage returning
\* (255,0,0) leaves every one of the 64 colour pixels equal to 0x00FF0000.
C11_FullscreenRed ==
    SceneIs(8, "REGULAR", FullscreenTriangle, Red) =>
        /\ status = "running"
        /\ Cardinality(Pixels(cb)) = 64
        /\ \A px \in Pixels(cb) : PixelAt(cb, px[1], px[2]) = 16711680

\* C11 witness: the scene has been drawn on a buffer cleared to 255, and
\* two opposite corners are red
C11_Witness ==
    /\ SceneIs(8, "REGULAR", FullscreenTriangle, Red)
    /\ script.calls[1].new_color = 255
    /\ PixelAt(cb, 0, 0) = RGB(Red)
    /\ PixelAt(cb, 7, 7) = RGB(Red)

\* the value clip_triangle returns for the triangle of the draw call d
ClipOf(d) ==
    clip_triangle(vertex(d.shader, d.vbo[1]), vertex(d.shader, d.vbo[2]),
                  vertex(d.shader, d.vbo[3]))

\* the pixels whose colour differs from the clear colour of the scene
WrittenPixels ==
    {px \in Pixels(cb) : PixelAt(cb, px[1], px[2]) # script.calls[1].new_color}

\* the pixels of S reached from those of reached by steps to one of the
\* eight neighbours
RECURSIVE Grow(_, _)
Grow(reached, S) ==
    LET more == {p \in S \ reached :
                    \E q \in reached : Abs(p[1] - q[1]) <= 1 /\ Abs(p[2] - q[2]) <= 1}
    IN  IF more = {} THEN reached ELSE Grow(reached \cup more, S)

\* S is one 8-connected region
Contiguous(S) == S = {} \/ Grow({CHOOSE p \in S : TRUE}, S) = S

\* the scene of C12 in filled mode on a 16x16 framebuffer, with either colour
NearPlaneScene ==
    \E color \in {Red, White} : SceneIs(16, "REGULAR", NearPlaneTriangle, color)

\* C12: for the triangle (0,0,-2,1),(2,0,1,1),(-2,0,1,1) the clipper returns
\* one or more triangles whose vertices all have z >= -w, and drawing it in
\* filled mode on a cleared 16x16 framebuffer with a solid-colour fragment
\* stage writes a non-empty contiguous region of the colour buffer.
C12_NearPlaneClipAndFill ==
    NearPlaneScene =>
        /\ ~ClipOf(SceneCall).panic
        /\ Len(ClipOf(SceneCall).tris) >= 1
        /\ \A j \in 1..Len(ClipOf(SceneCall).tris) : \A k \in 1..3 :
              Ge(ClipOf(SceneCall).tris[j][1][k][3], Neg(ClipOf(SceneCall).tris[j][1][k][4]))
        /\ status = "running"
        /\ WrittenPixels # {}
        /\ Contiguous(WrittenPixels)

\* the same scene with the triangle of positive screen area
NearPlaneWedgeScene ==
    \E color \in {Red, White} : SceneIs(16, "REGULAR", NearPlaneWedge, color)

\* every vertex of every triangle the clipper returns for d has z >= -w
ClippedBehindNear(d) ==
    \A j \in 1..Len(ClipOf(d).tris) : \A k \in 1..3 :
        Ge(ClipOf(d).tris[j][1][k][3], Neg(ClipOf(d).tris[j][1][k][4]))

\* C12 as amended: for the triangle (0,0,-2,1),(2,0,1,1),(-2,0,1,1) the
\* clipper returns one or more triangles whose vertices all have z >= -w;
\* its three vertices have y = 0, so it is collinear on the screen and
\* drawing it in filled mode on a cleared 16x16 framebuffer writes no pixel.
\* The triangle (0,1,-2,1),(-2,-1,1,1),(2,-1,1,1), which crosses the near
\* plane with positive screen area, is clipped the same way and fills a
\* non-empty contiguous region.
C12_NearPlaneClip ==
    /\ NearPlaneScene =>
          /\ ~ClipOf(SceneCall).panic
          /\ Len(ClipOf(SceneCall).tris) >= 1
          /\ ClippedBehindNear(SceneCall)
          /\ status = "running"
          /\ WrittenPixels = {}
    /\ NearPlaneWedgeScene =>
          /\ ~ClipOf(SceneCall).panic
          /\ Len(ClipOf(SceneCall).tris) >= 1
          /\ ClippedBehindNear(SceneCall)
          /\ status = "running"
          /\ WrittenPixels # {}
          /\ Contiguous(WrittenPixels)

\* C12 witness: the scene has been drawn in red on a buffer cleared to 0 and
\* the clipper returned more than one triangle, one of them with a vertex
\* on the near plane
C12_Witness ==
    /\ SceneIs(16, "REGULAR", NearPlaneTriangle, Red)
    /\ script.calls[1].new_color = 0
    /\ Len(ClipOf(SceneCall).tris) > 1
    /\ \E j \in 1..Len(ClipOf(SceneCall).tris) : \E k \in 1..3 :
          ClipOf(SceneCall).tris[j][1][k][3] = Neg(ClipOf(SceneCall).tris[j][1][k][4])

\* the screen-space vertices of the triangle of the draw call d
ScreenOf(d) ==
    [k \in 1..3 |-> ToScreen(screenspace_matrix, PerspectiveDivide(d.vbo[k].pos))]

\* the pixel px lies on the rasterized segment from a to b: less than tol
\* pixels beyond the end points along either axis, and less than tol pixels
\* from the line along the minor axis
OnSegment(px, a, b, tol) ==
    /\ Lt(Sub(FMin(a[1], b[1]), R(tol)), R(px[1]))
    /\ Lt(R(px[1]), Add(FMax(a[1], b[1]), R(tol)))
    /\ Lt(Sub(FMin(a[2], b[2]), R(tol)), R(px[2]))
    /\ Lt(R(px[2]), Add(FMax(a[2], b[2]), R(tol)))
    /\ Lt(FAbs(PerpDot(VSub(b, a), VSub(<<R(px[1]), R(px[2])>>, a))),
          Mul(R(tol), FMax(FAbs(Sub(b[1], a[1])), FAbs(Sub(b[2], a[2])))))

\* the pixel px lies on one of the three edges of the screen triangle tp
OnEdges(px, tp, tol) ==
    \/ OnSegment(px, tp[1], tp[2], tol)
    \/ OnSegment(px, tp[2], tp[3], tol)
    \/ OnSegment(px, tp[3], tp[1], tol)

\* the pixel px is strictly interior to the screen triangle tp
StrictlyInterior(px, tp) ==
    /\ Gt(EdgeFunctions(tp, px[1], px[2])[1], R(0))
    /\ Gt(EdgeFunctions(tp, px[1], px[2])[2], R(0))
    /\ Gt(EdgeFunctions(tp, px[1], px[2])[3], R(0))

\* a wireframe scene on a buffer cleared to 0 with a white fragment stage
WireframeScene ==
    /\ SceneDone
    /\ Len(script.calls) = 3
    /\ script.calls[1].new_color = 0
    /\ script.calls[2].new_mode = "WIREFRAME"
    /\ SceneCall.shader.color = White

\* the screen-space vertices of the j-th triangle the clipper returns for
\* the draw call d
FanScreen(d, j) ==
    [k \in 1..3 |-> ToScreen(screenspace_matrix, PerspectiveDivide(ClipOf(d).tris[j][1][k]))]

DrawnOverDepth(depth) ==
    draw([Self EXCEPT !.db = fill(db, depth)],
         NextCall.shader, NextCall.vbo, NextCall.ibo).cb

\* C14: a draw call in wireframe mode performs no depth test: the depth
\* buffer is left unchanged, the colour buffer it leaves is the same whatever
\* depths are stored (nearer than every fragment, or farther), and every
\* pixel it changes holds the colour of the fragment stage.
C14_WireframeNoDepthTest ==
    [][(DrawCall /\ draw_mode = "WIREFRAME") =>
          /\ db' = db
          /\ cb' = DrawnOverDepth(R(-1))
          /\ cb' = DrawnOverDepth(R(3))
          /\ \A px \in Pixels(cb) :
                PixelAt(cb', px[1], px[2]) # PixelAt(cb, px[1], px[2]) =>
                   PixelAt(cb', px[1], px[2]) = RGB(NextCall.shader.color)]_vars

\* C14 witness: the inner triangle (depth 1/2) drawn in wireframe over the
\* filled green background (depth 1/5): a line pixel has replaced the green
\* pixel although the depth stored there is nearer, and is still stored
C14_Witness ==
    /\ SceneDone
    /\ Len(script.calls) = 4
    /\ draw_mode = "WIREFRAME"
    /\ TriangleOf(SceneCall) = InnerTriangle
    /\ SceneCall.shader.color = Red
    /\ \E px \in Pixels(cb) :
          /\ PixelAt(cb, px[1], px[2]) = RGB(Red)
          /\ Lt(get_pixel(db, px[1], px[2]).value, Q(1, 2))
    /\ \E px \in Pixels(cb) : PixelAt(cb, px[1], px[2]) = RGB(Green)

\* the raw index of the user coordinate (x, y) in a buffer of the given
\* width and height
RawIndex(width, height, x, y) == (height - 1 - y) * width + x

\* C15: for a w x h Framebuffer and all (x, y) in bounds and all values v,
\* plot_pixel(x, y, v) stores v at raw index (h-1-y)*w + x and changes no
\* other element, and a following get_pixel(x, y) returns v; y = 0 lands in
\* the last raw row and y = h-1 in the first.  A get_pixel call in bounds
\* returns the element at that raw index.
C15_PlotGetRoundTrip ==
    [][/\ \A x \in FbCoords, y \in FbCoords, v \in FbValues :
             (FbPlotPixel(x, y, v) /\ InBounds(cb, x, y)) =>
                /\ status' = "running"
                /\ cb' = [cb EXCEPT !.buf[RawIndex(cb.width, cb.height, x, y) + 1] = v]
                /\ get_pixel(cb', x, y) = [value |-> v, panic |-> FALSE]
                /\ y = 0 =>
                      RawIndex(cb.width, cb.height, x, y) \in
                         ((cb.height - 1) * cb.width)..(cb.height * cb.width - 1)
                /\ y = cb.height - 1 =>
                      RawIndex(cb.width, cb.height, x, y) \in 0..(cb.width - 1)
       /\ \A x \in FbCoords, y \in FbCoords :
             (FbGetPixel(x, y) /\ InBounds(cb, x, y)) =>
                /\ status' = "running"
                /\ call'.ret = cb.buf[RawIndex(cb.width, cb.height, x, y) + 1]]_vars

\* C15 witness: on a buffer two rows high, get_pixel(0, 0) has returned the
\* value a plot_pixel(0, 0, 9) stored in the last raw row, the first raw row
\* still holding the default
C15_Witness ==
    /\ cb.height = 2
    /\ status = "running"
    /\ call.op = "get_pixel" /\ call.x = 0 /\ call.y = 0 /\ call.ret = 9
    /\ cb.buf[cb.width + 1] = 9
    /\ cb.buf[1] = 0

\* C16: after any sequence of new, set_fb_size, clear_framebuffer,
\* set_draw_mode and draw, the colour buffer and the depth buffer have the
\* same width and height, and the storage length of each is width * height.
C16_BuffersSameSize ==
    /\ cb.width = db.width
    /\ cb.height = db.height
    /\ Len(cb.buf) = cb.width * cb.height
    /\ Len(db.buf) = db.width * db.height

\* C16 witness: a draw on buffers that set_fb_size has grown from 2x3 to 3x3
\* after a clear (the six old elements hold 255, the last one the default)
C16_Witness ==
    /\ call.op = "draw"
    /\ cb.width = MaxDim /\ cb.height = MaxDim
    /\ db.width = MaxDim /\ db.height = MaxDim
    /\ Len(cb.buf) = MaxDim * MaxDim
    /\ cb.buf[1] = 255
    /\ db.buf[Len(db.buf)] = R(0)
    /\ db.buf[1] = R(1)

\* C17: after any sequence of new and set_fb_size calls (and of the other
\* calls, which leave the matrix alone) the stored screen-space matrix is
\* the one for the buffers' current (w, h): it maps NDC x = -1 to 0 and
\* x = 1 to w - 1, and NDC y = -1 to 0 and y = 1 to h - 1.
C17_MatrixInSync ==
    /\ ToScreen(screenspace_matrix, <<R(-1), R(-1), R(0)>>) = <<R(0), R(0)>>
    /\ ToScreen(screenspace_matrix, <<R(1), R(1), R(0)>>)
          = <<R(cb.width - 1), R(cb.height - 1)>>
    /\ ToScreen(screenspace_matrix, <<R(1), R(-1), R(0)>>) = <<R(cb.width - 1), R(0)>>

\* C17 witness: set_fb_size has grown the buffers from 2x3 to 3x3 (the old
\* elements hold the clear colour, the new one the default) and the matrix
\* maps x = 1 to 2
C17_Witness ==
    /\ call.op = "set_fb_size"
    /\ cb.width = MaxDim
    /\ cb.buf[1] = 255
    /\ cb.buf[Len(cb.buf)] = 0
    /\ ToScreen(screenspace_matrix, <<R(1), R(1), R(0)>>)[1] = R(MaxDim - 1)

\* C18: the screen-space matrix leaves z untouched: applied to (x, y, z, 1)
\* it yields a vector whose z component is z and whose w component is 1;
\* its third column is (0, 0, 1, 0) and its fourth column is
\* ((w-1)/2, (h-1)/2, 0, 1).
C18_ZUntouched ==
    /\ \A z \in {R(-1), R(0), Q(1, 2), R(1)} :
          /\ MatMulVec(screenspace_matrix, <<R(0), R(0), z, R(1)>>)[3] = z
          /\ MatMulVec(screenspace_matrix, <<R(0), R(0), z, R(1)>>)[4] = R(1)
    /\ screenspace_matrix[3] = <<R(0), R(0), R(1), R(0)>>
    /\ screenspace_matrix[4] = <<Q(cb.width - 1, 2), Q(cb.height - 1, 2), R(0), R(1)>>

\* every element of the framebuffer fb equals value
AllEqual(fb, value) == \A i \in 1..Len(fb.buf) : fb.buf[i] = value

\* C19: clear_framebuffer(c) leaves every colour pixel equal to c and every
\* depth value equal to 1.0 whatever the previous contents, and a second
\* clear_framebuffer(c) right after it changes nothing of the Renderer.
C19_ClearIdempotent ==
    [][\A c \in ClearColors :
          ClearFramebuffer(c) =>
             /\ AllEqual(cb', c) /\ Len(cb'.buf) = Len(cb.buf)
             /\ AllEqual(db', R(1)) /\ Len(db'.buf) = Len(db.buf)
             /\ (call.op = "clear_framebuffer" /\ call.new_color = c) =>
                   /\ cb' = cb
                   /\ db' = db
                   /\ draw_mode' = draw_mode
                   /\ screenspace_matrix' = screenspace_matrix
                   /\ status' = status]_vars

\* C19 witness: the last call of four was clear_framebuffer(255), and both
\* buffers are uniform
C19_Witness ==
    /\ call.op = "clear_framebuffer"
    /\ call.new_color = 255
    /\ script.pc = MaxCalls
    /\ AllEqual(cb, 255)
    /\ AllEqual(db, R(1))

\* C20 as stated: after resize(new_w, new_h, default) every one of the
\* new_w * new_h elements equals the caller-supplied default, whatever the
\* buffer held before.
C20_ResizeFillsDefault ==
    call.op = "resize" =>
        /\ Len(cb.buf) = call.new_width * call.new_height
        /\ AllEqual(cb, call.default)

\* C20 as amended: resize(new_w, new_h, default) stores the new width and
\* height and makes the storage new_w * new_h elements long; the raw
\* elements the old storage already had keep their values, in raw order, and
\* only the elements behind them equal the caller-supplied default.
C20_ResizeKeepsPrefix ==
    [][\A w \in FbSizes, h \in FbSizes, v \in FbValues :
          FbResize(w, h, v) =>
             /\ cb'.width = w
             /\ cb'.height = h
             /\ Len(cb'.buf) = w * h
             /\ \A i \in 1..(w * h) :
                   cb'.buf[i] = IF i <= Len(cb.buf) THEN cb.buf[i] ELSE v]_vars

\* C20 witness: a resize with default 9 has grown a buffer that held 7: the
\* first raw element still holds 7, the last one holds 9
C20_Witness ==
    /\ call.op = "resize"
    /\ call.default = 9
    /\ cb.buf[1] = 7
    /\ cb.buf[Len(cb.buf)] = 9

\* C21: every colour value written by a draw call is 0x00RRGGBB: for the
\* fragment result (r, g, b), each channel in 0..255, the value stored at
\* every pixel the call changes is r*65536 + g*256 + b; its top 8 bits are 0
\* and each channel is recovered from its own byte.
C21_ColorLayout ==
    [][DrawCall =>
          \A px \in Pixels(cb) :
             PixelAt(cb', px[1], px[2]) # PixelAt(cb, px[1], px[2]) =>
                /\ PixelAt(cb', px[1], px[2])
                      = NextCall.shader.color[1] * 65536 + NextCall.shader.color[2] * 256
                        + NextCall.shader.color[3]
                /\ PixelAt(cb', px[1], px[2]) \div 16777216 = 0
                /\ (PixelAt(cb', px[1], px[2]) \div 65536) % 256 = NextCall.shader.color[1]
                /\ (PixelAt(cb', px[1], px[2]) \div 256) % 256 = NextCall.shader.color[2]
                /\ PixelAt(cb', px[1], px[2]) % 256 = NextCall.shader.color[3]]_vars

\* C21 witness: a filled draw with the fragment result
\* (18, 52, 86) have stored 0x123456
C21_Witness ==
    /\ SceneDone
    /\ SceneCall.shader.color = Teal
    /\ draw_mode = "REGULAR"
    /\ \E px \in Pixels(cb) : PixelAt(cb, px[1], px[2]) = 1193046

\* every value of the depth buffer lies in [lo, hi]
DepthsWithin(lo, hi) ==
    \A i \in 1..Len(db.buf) : Le(lo, db.buf[i]) /\ Le(db.buf[i], hi)

\* C22 as stated: every value in the depth buffer lies in [0, 1] after any
\* sequence of clear_framebuffer and filled draw calls whose vertices pass
\* the clipper (while the draw mode is REGULAR every draw so far was filled).
C22_DepthInUnitInterval ==
    draw_mode = "REGULAR" => DepthsWithin(R(0), R(1))

\* C22 as amended: after any such sequence every value in the depth buffer
\* lies in [-1, 1], the range of z / w between the planes -w <= z and z <= w.
C22_DepthInClipRange ==
    draw_mode = "REGULAR" => DepthsWithin(R(-1), R(1))

\* C22 witness: a filled draw of the triangle with w = 2 has stored a
\* negative depth, next to pixels still at the cleared depth 1
C22_Witness ==
    /\ SceneDone
    /\ draw_mode = "REGULAR"
    /\ TriangleOf(SceneCall) = HomogeneousTriangle
    /\ \E i \in 1..Len(db.buf) : Lt(db.buf[i], R(0))
    /\ \E i \in 1..Len(db.buf) : db.buf[i] = R(1)

\* the signed distance sign * w - v[axis] of the clip position pos from the
\* plane of the recorded call
EdgeDistance(pos) == Sub(Mul(R(call.plane.sign), pos[4]), pos[call.plane.axis + 1])

\* the parameter t of the intersection of the recorded edge with its plane,
\* measured from curr (t = 0) to prev (t = 1)
EdgeParameter ==
    Div(EdgeDistance(call.to[1]),
        Sub(EdgeDistance(call.to[1]), EdgeDistance(call.from[1])))

\* C23: for every edge (prev, curr) that crosses a clip plane the new
\* vertex's varying is interpolated at the same parameter t as its position:
\* position = curr + t*(prev - curr) and varying = varying(curr) +
\* t*(varying(prev) - varying(curr)), also for an edge whose end points have
\* equal x and y.
C23_VaryingAtSameParameter ==
    call.op = "compute_clipping_intersection" =>
        /\ call.ret[1] = VAdd(call.to[1], VScale(VSub(call.from[1], call.to[1]), EdgeParameter))
        /\ call.ret[2] = Add(call.to[2], Mul(EdgeParameter, Sub(call.from[2], call.to[2])))

(***************************************************************************)
(* Properties of the traversal of plot_triangle, checked under SpecTri     *)
(***************************************************************************)
\* the set-up of the recorded plot_triangle call
CallSetup ==
    TriSetup(call.p[1], call.p[2], call.p[3],
             tri_bounding_box(AsIVec2(call.p[1]), AsIVec2(call.p[2]), AsIVec2(call.p[3])),
             call.clip_z, call.program, call.program_inputs)

\* the accumulators at the start of the row y of the traversal
RECURSIVE RowStart(_, _)
RowStart(t, y) ==
    IF y <= t.bb.origin[2]
    THEN StartEdgeFunctions(call.p[1], call.p[2], call.p[3], t.start_pix)
    ELSE StepRow(RowStart(t, y - 1), t)

\* the accumulators when the traversal visits the pixel (x, y)
RECURSIVE AccumulatorsAt(_, _, _)
AccumulatorsAt(t, x, y) ==
    IF x <= t.bb.origin[1] THEN RowStart(t, y)
    ELSE StepColumn(AccumulatorsAt(t, x - 1, y), t)

\* the pixels the traversal visits: the bounding box, borders included
Visited(t) ==
    {<<x, y>> : x \in t.bb.origin[1]..(t.bb.origin[1] + t.bb.width),
                y \in t.bb.origin[2]..(t.bb.origin[2] + t.bb.height)}

\* C24: at every pixel (x, y) visited by the bottom-to-top, left-to-right
\* traversal of the bounding box the incrementally updated accumulators
\* equal the directly evaluated edge functions, and their sum is the area.
C24_IncrementalEdgeFunctions ==
    call.op = "plot_triangle" =>
        \A px \in Visited(CallSetup) :
            /\ AccumulatorsAt(CallSetup, px[1], px[2]) = EdgeFunctions(call.p, px[1], px[2])
            /\ Add(Add(AccumulatorsAt(CallSetup, px[1], px[2])[1],
                       AccumulatorsAt(CallSetup, px[1], px[2])[2]),
                   AccumulatorsAt(CallSetup, px[1], px[2])[3]) = CallSetup.area

\* C24 witness: a plotted triangle of positive area with a vertex between
\* pixel centres whose bounding box has several rows and columns
C24_Witness ==
    /\ call.op = "plot_triangle"
    /\ Gt(CallSetup.area, R(0))
    /\ call.p[3] = <<Q(1, 2), Q(3, 2)>>
    /\ CallSetup.bb.width >= 2
    /\ CallSetup.bb.height >= 1
    /\ \E px \in Visited(CallSetup) : PixelAt(cb, px[1], px[2]) = RGB(Red)

(***************************************************************************)
(* Further properties of clip_triangle, checked under SpecClip             *)
(***************************************************************************)
\* C25: the polygon left by each of the six passes of clip_triangle never
\* has exactly 1 or 2 vertices, so output_verts.len() - 2 never underflows:
\* a call panics only inside a pass, and otherwise returns no triangle for
\* the empty polygon and len - 2 triangles for any other.
C25_NoFanUnderflow ==
    ClipCalled =>
        /\ \A i \in 1..Len(call.polys) : Len(call.polys[i]) \notin {1, 2}
        /\ call.panic => Len(call.polys) < 6
        /\ ~call.panic =>
              /\ Len(call.polys) = 6
              /\ Len(call.tris) = IF call.polys[6] = <<>> THEN 0
                                  ELSE Len(call.polys[6]) - 2

\* C25 witness: a call on a triangle with a vertex outside the frustum that
\* left a polygon of four or more vertices and returned len - 2 triangles
C25_Witness ==
    /\ ClipCalled
    /\ ~call.panic
    /\ Len(call.polys[6]) >= 4
    /\ Len(call.tris) = Len(call.polys[6]) - 2
    /\ \E k \in 1..3 : ~InFrustum(call.v[k][1])

(***************************************************************************)
(* Further properties of plot_triangle, checked under SpecTri              *)
(***************************************************************************)
\* the set-up of the plot_triangle call about to be recorded
NextSetup ==
    TriSetup(call'.p[1], call'.p[2], call'.p[3],
             tri_bounding_box(AsIVec2(call'.p[1]), AsIVec2(call'.p[2]), AsIVec2(call'.p[3])),
             call'.clip_z, call'.program, call'.program_inputs)

\* C26: plot_triangle called with a triangle of negative signed area
\* (clockwise in screen space) covers no pixel: no pixel of its bounding box
\* has all three edge functions >= 0, and the call writes neither the colour
\* nor the depth buffer.
C26_ClockwiseSkipped ==
    [][(call'.op = "plot_triangle" /\ Lt(NextSetup.area, R(0))) =>
          /\ \A px \in Visited(NextSetup) : ~CoveredPixel(call'.p, px[1], px[2])
          /\ cb' = cb
          /\ db' = db
          /\ status' = "running"]_vars

\* C26 witness: a plotted clockwise triangle of three different vertices
\* with a pixel inside it or on its border, not a vertex (no edge function
\* is positive, one is negative), that kept the cleared colour and depth
C26_Witness ==
    /\ call.op = "plot_triangle"
    /\ Lt(CallSetup.area, R(0))
    /\ \E px \in Visited(CallSetup) :
          /\ Le(EdgeFunctions(call.p, px[1], px[2])[1], R(0))
          /\ Le(EdgeFunctions(call.p, px[1], px[2])[2], R(0))
          /\ Le(EdgeFunctions(call.p, px[1], px[2])[3], R(0))
          /\ <<R(px[1]), R(px[2])>> \notin {call.p[1], call.p[2], call.p[3]}
          /\ PixelAt(cb, px[1], px[2]) = 0
          /\ PixelAt(db, px[1], px[2]) = R(1)

(***************************************************************************)
(* Further properties of Renderer::draw, checked under Spec                *)
(***************************************************************************)
\* C27: in a filled-mode draw call the depth value at every pixel never
\* increases, and a pixel's colour changes only if that pixel's depth
\* strictly decreases in the call; so it is across any sequence of such
\* calls with no clear_framebuffer or set_fb_size in between.
C27_DepthMonotone ==
    [][\A d \in DrawInputs :
          (Draw([color |-> d[1]], Mesh, d[2]) /\ draw_mode = "REGULAR") =>
             /\ Len(db'.buf) = Len(db.buf)
             /\ \A i \in 1..Len(db.buf) :
                   /\ Le(db'.buf[i], db.buf[i])
                   /\ cb'.buf[i] # cb.buf[i] => Lt(db'.buf[i], db.buf[i])]_vars

\* C27 witness: after a clear, two filled draws have left a red pixel at
\* depth 1/5, a green pixel at depth 1/2 and a pixel at the cleared depth
C27_Witness ==
    /\ call.op = "draw"
    /\ draw_mode = "REGULAR"
    /\ status = "running"
    /\ \E i \in 1..Len(db.buf) : cb.buf[i] = RGB(Red) /\ db.buf[i] = Q(1, 5)
    /\ \E i \in 1..Len(db.buf) : cb.buf[i] = RGB(Green) /\ db.buf[i] = Q(1, 2)

(***************************************************************************)
(* Properties of a Renderer before its first clear, checked under          *)
(* SpecFresh                                                               *)
(***************************************************************************)
\* none of the first n calls of the script is one of ops
NoneOf(ops, n) == \A k \in 1..n : script.calls[k].op \notin ops

\* the clip position p lies at depth >= 0 (z / w >= 0 with w > 0)
NonNegativeDepth(p) == Gt(p[4], R(0)) /\ Ge(p[3], R(0))

\* C28: after Renderer::new and before the first clear_framebuffer every
\* depth value is 0.0 until a draw changes it, so a filled draw writes a
\* pixel only where the interpolated depth is < 0: every element it changes
\* ends with a negative depth, and a triangle whose depths are all >= 0
\* changes nothing.
C28_UnclearedDepthIsZero ==
    [][/\ NoneOf({"clear_framebuffer", "draw"}, script.pc) => AllEqual(db, R(0))
       /\ NoneOf({"clear_framebuffer", "draw"}, script'.pc) => AllEqual(db', R(0))
       /\ (DrawCall /\ draw_mode = "REGULAR" /\ NoneOf({"clear_framebuffer"}, script.pc)) =>
             /\ \A i \in 1..Len(db.buf) :
                   (cb'.buf[i] # cb.buf[i] \/ db'.buf[i] # db.buf[i]) =>
                       Lt(db'.buf[i], R(0))
             /\ (\A k \in 1..3 : NonNegativeDepth(NextCall.vbo[k].pos)) =>
                   cb' = cb /\ db' = db]_vars

\* C28 witness: before the first clear a filled draw of the triangle that
\* reaches from depth -1 to depth 1 has written pixels of negative depth
\* and left the others at colour 0 and depth 0.0
C28_Witness ==
    /\ call.op = "draw"
    /\ NoneOf({"clear_framebuffer"}, script.pc)
    /\ draw_mode = "REGULAR"
    /\ TriangleOf(call) = HomogeneousTriangle
    /\ \E i \in 1..Len(db.buf) : Lt(db.buf[i], R(0)) /\ cb.buf[i] = RGB(call.shader.color)
    /\ \A i \in 1..Len(db.buf) : ~Lt(db.buf[i], R(0)) => (db.buf[i] = R(0) /\ cb.buf[i] = 0)

(***************************************************************************)
(* Properties of plot_line, checked under SpecLine                         *)
(***************************************************************************)
\* the driving axis of the recorded plot_line call: 2 (y) if the line is
\* more vertical than horizontal, 1 (x) otherwise
Driving ==
    IF Gt(FAbs(Sub(call.p1[2], call.p2[2])), FAbs(Sub(call.p1[1], call.p2[1])))
    THEN 2 ELSE 1

Minor == 3 - Driving

\* the pixels the call plotted on the buffer cleared to 0
LinePixels == {px \in Pixels(cb) : PixelAt(cb, px[1], px[2]) = RGB(call.program.color)}

\* trunc of the smaller and of the larger of the two end points' coordinates
\* on the given axis
TruncLow(axis) == AsI32(FMin(call.p1[axis], call.p2[axis]))

TruncHigh(axis) == AsI32(FMax(call.p1[axis], call.p2[axis]))

ProjectedArea(tp) ==
    tri_area_signed_squared(XY(PerspectiveDivide(tp[1])), XY(PerspectiveDivide(tp[2])),
                            XY(PerspectiveDivide(tp[3])))

\* the recorded input triangle has all w > 0 and a counter-clockwise
\* projection
CounterClockwiseInput ==
    /\ ClipCalled
    /\ \A k \in 1..3 : Gt(call.v[k][1][4], R(0))
    /\ Gt(ProjectedArea(<<call.v[1][1], call.v[2][1], call.v[3][1]>>), R(0))

\* C30: clip_triangle preserves winding: for an input triangle with all
\* w > 0 whose perspective-divided projection is counter-clockwise, every
\* triangle of the returned fan has signed area >= 0 after the perspective
\* divide.
C30_WindingPreserved ==
    CounterClockwiseInput =>
        \A j \in 1..Len(call.tris) : Ge(ProjectedArea(call.tris[j][1]), R(0))

\* C30 witness: a counter-clockwise triangle that was clipped into a fan of
\* two or more triangles of positive area
C30_Witness ==
    /\ CounterClockwiseInput
    /\ ~call.panic
    /\ Len(call.tris) >= 2
    /\ \E p \in ReturnedPositions : p \notin InputPositions
    /\ \A j \in 1..Len(call.tris) : Gt(ProjectedArea(call.tris[j][1]), R(0))

====
